---- MODULE Spec2Model ----
(***************************************************************************)
(* Model of the stdio JSON backend of nvim-llm-request (python/main.py,    *)
(* python/config.py, python/providers): the transport loop, the request    *)
(* router, the conversation store, configuration resolution and the two    *)
(* provider adapters.                                                      *)
(*                                                                         *)
(* Spec            main(): one step reads a line and runs its handler up   *)
(*                 to the provider call, or pulls one event from the       *)
(*                 running generator and prints it.                        *)
(* SpecConfig      the first complete request of a process, over the       *)
(*                 environments and body configs resolution distinguishes. *)
(* SpecAdapter     one stream_completion call, one provider event a step.  *)
(* SpecInterleaved two process_request generators over the one store, one  *)
(*                 next() a step.                                          *)
(* SpecResume      one tool_response for a stored conversation, with the   *)
(*                 deliveries of the continued stream kept.                *)
(* SpecKeys        complete requests with and without request_id and the   *)
(*                 keys they are stored under.                             *)
(***************************************************************************)
EXTENDS Integers, Sequences, FiniteSets, TLC

(***************************************************************************)
(* Bounds of the model.                                                    *)
(***************************************************************************)
\* number of input lines read from stdin
MaxLines == 3
\* number of events the provider streams deliver, all streams together
MaxEvents == 2

(***************************************************************************)
(* Python values.                                                          *)
(***************************************************************************)
\* a key that is not in a dict / an unset environment variable; dict.get
\* and os.getenv turn it into None
Absent == "<absent>"

\* Python truthiness of an optional string: None and "" are falsy
Truthy(v) == v # Absent /\ v # ""

Ok(v) == [ok |-> TRUE, value |-> v]
Raise(msg) == [ok |-> FALSE, message |-> msg]

(***************************************************************************)
(* Canonical events.                                                       *)
(***************************************************************************)
CompletionEvent(c) == [type |-> "completion", content |-> c]
ThinkingEvent(c) == [type |-> "thinking", content |-> c]
ToolCallEvent(i, n, a) == [type |-> "tool_call", id |-> i, name |-> n, args |-> a]
DoneEvent == [type |-> "done"]
ErrorEvent(m) == [type |-> "error", message |-> m]

(***************************************************************************)
(* config.py                                                               *)
(***************************************************************************)
EnvNames == {"AI_REQUEST_PROVIDER", "AI_REQUEST_MODEL", "AI_REQUEST_TIMEOUT",
             "AI_REQUEST_MAX_TOOL_CALLS", "ANTHROPIC_API_KEY", "OPENAI_API_KEY",
             "AI_REQUEST_LOCAL_API_KEY", "AI_REQUEST_LOCAL_URL"}

\* os.getenv(name, default)
Getenv(e, name, default) == IF e[name] = Absent THEN default ELSE e[name]

\* int(s) on the strings the model puts into the environment
IntOf(s) ==
    CASE s = "30" -> Ok(30)
      [] s = "3"  -> Ok(3)
      [] s = "5"  -> Ok(5)
      [] OTHER    -> Raise("invalid literal for int() with base 10: '" \o s \o "'")

valid_providers == {"anthropic", "openai", "local"}

\* Config._default_model
DefaultModel(provider) ==
    CASE provider = "anthropic" -> "claude-sonnet-4.5"
      [] provider = "openai"    -> "gpt-4"
      [] provider = "local"     -> "deepseek-coder:6.7b"
      [] OTHER                  -> "claude-sonnet-4.5"

\* the dataclass: field defaults base_url=None, timeout=30, max_tool_calls=3
ConfigRecord(provider, model, api_key, base_url, timeout, max_tool_calls) ==
    [provider |-> provider, model |-> model, api_key |-> api_key,
     base_url |-> base_url, timeout |-> timeout, max_tool_calls |-> max_tool_calls]

\* a config dict; a field that is not a key of the dict is Absent
DictFields == {"provider", "model", "api_key", "base_url", "timeout", "max_tool_calls"}
\* the numeric fields are absent as NoNumber
NoNumber == -1
EmptyDict ==
    [f \in DictFields |-> IF f \in {"timeout", "max_tool_calls"} THEN NoNumber ELSE Absent]

\* the TypeError text for the required fields the dict lacks
MissingArguments(d) ==
    LET p == d.provider = Absent
        m == d.model = Absent
        k == d.api_key = Absent
    IN  CASE p /\ m /\ k   -> "3 required positional arguments: 'provider', 'model', and 'api_key'"
          [] p /\ m /\ ~k  -> "2 required positional arguments: 'provider' and 'model'"
          [] p /\ ~m /\ k  -> "2 required positional arguments: 'provider' and 'api_key'"
          [] ~p /\ m /\ k  -> "2 required positional arguments: 'model' and 'api_key'"
          [] p /\ ~m /\ ~k -> "1 required positional argument: 'provider'"
          [] ~p /\ m /\ ~k -> "1 required positional argument: 'model'"
          [] OTHER         -> "1 required positional argument: 'api_key'"

\* Config(**config_dict): the generated __init__ requires provider, model
\* and api_key, fills the defaults of the others and validates nothing
ConfigInit(d) ==
    IF d.provider = Absent \/ d.model = Absent \/ d.api_key = Absent
    THEN Raise("Config.__init__() missing " \o MissingArguments(d))
    ELSE Ok(ConfigRecord(d.provider, d.model, d.api_key, d.base_url,
                         IF d.timeout = NoNumber THEN 30 ELSE d.timeout,
                         IF d.max_tool_calls = NoNumber THEN 3 ELSE d.max_tool_calls))

\* provider.upper()
Upper(provider) ==
    CASE provider = "anthropic" -> "ANTHROPIC"
      [] provider = "openai"    -> "OPENAI"
      [] provider = "local"     -> "LOCAL"
      [] OTHER                  -> provider

\* the API key from_dict resolves: the dict's key when it is truthy,
\* else the provider's environment variable
ApiKeyOf(d, e, provider) ==
    IF Truthy(d.api_key) THEN d.api_key
    ELSE CASE provider = "anthropic" -> e["ANTHROPIC_API_KEY"]
           [] provider = "openai"    -> e["OPENAI_API_KEY"]
           [] provider = "local"     -> Getenv(e, "AI_REQUEST_LOCAL_API_KEY", "none")
           [] OTHER                  -> Absent

\* Config.from_dict
ConfigFromDict(d, e) ==
    LET provider == IF Truthy(d.provider) THEN d.provider
                    ELSE Getenv(e, "AI_REQUEST_PROVIDER", "anthropic")
        model == IF Truthy(d.model) THEN d.model
                 ELSE IF Truthy(e["AI_REQUEST_MODEL"]) THEN e["AI_REQUEST_MODEL"]
                 ELSE DefaultModel(provider)
        timeout == IF d.timeout # NoNumber THEN Ok(d.timeout)
                   ELSE IntOf(Getenv(e, "AI_REQUEST_TIMEOUT", "30"))
        max_tool_calls == IF d.max_tool_calls # NoNumber THEN Ok(d.max_tool_calls)
                          ELSE IntOf(Getenv(e, "AI_REQUEST_MAX_TOOL_CALLS", "3"))
        api_key == ApiKeyOf(d, e, provider)
        base_url == IF ~Truthy(d.base_url) /\ provider = "local"
                    THEN Getenv(e, "AI_REQUEST_LOCAL_URL", "http://localhost:11434/v1")
                    ELSE d.base_url
    IN  IF provider \notin valid_providers
        THEN Raise("Invalid provider '" \o provider \o "'. Must be one of: ['anthropic', 'openai', 'local']")
        ELSE IF ~timeout.ok THEN timeout
        ELSE IF ~max_tool_calls.ok THEN max_tool_calls
        ELSE IF ~Truthy(api_key) /\ provider # "local"
        THEN Raise("API key not found for provider '" \o provider \o "'. Set "
                   \o Upper(provider) \o "_API_KEY environment variable.")
        ELSE Ok(ConfigRecord(provider, model, api_key, base_url,
                             timeout.value, max_tool_calls.value))

\* Config.from_env
ConfigFromEnv(e) == ConfigFromDict(EmptyDict, e)

(***************************************************************************)
(* tools.py                                                                *)
(***************************************************************************)
\* get_tool_definitions
ToolDefinitions ==
    << [type |-> "function",
        function |-> [name |-> "get_implementation",
                      description |-> "Retrieve the full implementation of a function or class from the codebase.",
                      parameters |-> "schema:function_name"]] >>

\* convert_tools_for_anthropic
ConvertToolsForAnthropic(tools) ==
    LET fs == SelectSeq(tools, LAMBDA t : t.type = "function")
    IN  [i \in 1..Len(fs) |->
            [name |-> fs[i].function.name,
             description |-> fs[i].function.description,
             input_schema |-> fs[i].function.parameters]]

(***************************************************************************)
(* Inputs: the environment, the input lines, the provider's behaviour.     *)
(***************************************************************************)
NoEnv == [n \in EnvNames |-> Absent]
\* the environment of the process in the runs of the transport loop: no
\* variable is set (ConfigEnvs has the environments that resolution
\* distinguishes)
Envs == { NoEnv }

\* a config object of a request body
BodyConfig(provider, model, api_key) ==
    [EmptyDict EXCEPT !.provider = provider, !.model = model, !.api_key = api_key]

\* request ids a caller supplies
RequestIds == {"r1"}

\* the values str(id(request)) takes, named in the order in which the
\* allocator first hands them out
GeneratedNames == << "g1", "g2", "g3", "g4", "g5" >>
GeneratedIds == { GeneratedNames[i] : i \in 1..Len(GeneratedNames) }
ToolIds == {"t1", "t2"}
Text == {"a", "b"}

\* a request without a 'config' key
NoConfig == [absent |-> TRUE]

\* a decoded request; a key the object lacks is Absent (NoConfig for config)
Request(type, request_id, context, prompt, config, tool_call_id, content) ==
    [type |-> type, request_id |-> request_id, context |-> context,
     prompt |-> prompt, config |-> config, tool_call_id |-> tool_call_id,
     content |-> content]

\* complete requests: one per provider with the config in the body, one
\* that leaves the config to the environment (which must then hold a key),
\* and three that fail before the provider is called (unknown provider,
\* incomplete config, no context)
CompleteRequests ==
    { Request("complete", "r1", "ctx", "p", BodyConfig("anthropic", "m", "sk-body"), Absent, Absent),
      Request("complete", "r1", "ctx", Absent, BodyConfig("openai", "m", "sk-body"), Absent, Absent),
      Request("complete", Absent, "ctx", Absent, BodyConfig("local", "m", "none"), Absent, Absent),
      Request("complete", "r1", "ctx", Absent, NoConfig, Absent, Absent),
      Request("complete", "r1", "ctx", Absent, BodyConfig("bogus", "m", "sk-body"), Absent, Absent),
      Request("complete", "r1", "ctx", Absent, BodyConfig("anthropic", Absent, Absent), Absent, Absent),
      Request("complete", "r1", Absent, Absent, BodyConfig("anthropic", "m", "sk-body"), Absent, Absent) }

\* tool responses: for the caller's request ids and the first generated
\* one, and with the request_id empty or missing
ToolResponseRequests ==
    { Request("tool_response", r, Absent, Absent, NoConfig, t, "result") :
        r \in RequestIds, t \in ToolIds }
    \cup { Request("tool_response", r, Absent, Absent, NoConfig, "t1", "result") :
              r \in {"g1", "", Absent} }

OtherRequests ==
    { Request(ty, Absent, Absent, Absent, NoConfig, Absent, Absent) : ty \in {"frob"} }

\* a JSON value that is not an object (a list, a number): it has no .get
NotAnObject == [list |-> <<>>]

\* lines json.loads rejects, with the detail of its JSONDecodeError; main()
\* hands json.loads the line with its newline
MalformedLines ==
    { [text |-> "{", detail |-> "Expecting property name enclosed in double quotes: line 2 column 1 (char 2)"],
      [text |-> "oops", detail |-> "Expecting value: line 1 column 1 (char 0)"] }

\* the line that encodes a JSON value
Encode(v) == [text |-> "json", value |-> v]

ValidLines ==
    { Encode(v) :
        v \in CompleteRequests \cup ToolResponseRequests \cup OtherRequests \cup {NotAnObject} }

\* json.loads(line)
JsonLoads(l) == IF l.text # "json" THEN Raise(l.detail) ELSE Ok(l.value)

NoLine == [text |-> "<none>"]

\* the request a line decodes to, a request with no key for other lines
LineOf(l) ==
    IF l.text = "json" /\ "request_id" \in DOMAIN l.value THEN l.value
    ELSE [request_id |-> Absent, type |-> Absent]

\* the exceptions a provider call raises (network, timeout, SDK)
ProviderFailures == {"Connection error."}

EmptyArgs == [k \in {} |-> ""]
ArgsOf(id) == IF id = "t1" THEN [function_name |-> "foo"] ELSE EmptyArgs

\* the events client.stream_completion yields before its final done:
\* both adapters yield completion and tool_call, only the Anthropic
\* adapter yields thinking
AdapterEvents(is_anthropic) ==
    { CompletionEvent(c) : c \in Text }
    \cup { ToolCallEvent(i, "get_implementation", ArgsOf(i)) : i \in ToolIds }
    \cup (IF is_anthropic THEN { ThinkingEvent("hm") } ELSE {})

(***************************************************************************)
(* State.                                                                  *)
(***************************************************************************)
VARIABLES
    env,            \* os.environ, fixed for the life of the process
    conversations,  \* main.conversations: request_id -> conversation
    pc,             \* where main() is: "read", "complete", "resume"
    line,           \* the input line being handled, or the last one handled
    request_id,     \* the handler's local request_id
    tool_call,      \* handle_tool_response's local tool_call
    nevents,        \* events the provider streams have delivered so far
    nlines,         \* lines read so far
    out,            \* the events printed for `line`, in order
    yielded,        \* the events the adapter has yielded for `line`
    calls,          \* provider calls issued while handling `line`
    before,         \* the store as it was when `line` was read
    resumed,        \* request ids whose resume stream has terminated, and
                    \* that no complete request has stored again since
    adapter,        \* the frame of a running client.stream_completion
    call,           \* the request the handler of `line` sent to the provider
    handlers,       \* two process_request generators driven in turns
    main_request,   \* main()'s `request`: the address of the object it is
                    \* bound to when a handler took it as its key
    after_malformed \* history: the line read before `line` was not valid JSON

vars == <<env, conversations, pc, line, request_id, tool_call, nevents,
          nlines, out, yielded, calls, before, resumed, adapter, call, handlers,
          main_request, after_malformed>>

\* tool_call = None
NoToolCall == [absent |-> TRUE]

EmptyStore == [k \in {} |-> [absent |-> TRUE]]

\* StorePut as conversations.setdefault(k, v)
StorePut_SetDefault(store, k, v) ==
    [x \in DOMAIN store \cup {k} |-> IF x \in DOMAIN store THEN store[x] ELSE v]

\* conversations[k] = v
StorePut(store, k, v) ==
    [x \in DOMAIN store \cup {k} |-> IF x = k THEN v ELSE store[x]]

\* CleanupConversation as conversations.clear()
CleanupConversation_Clear(store, k) == [x \in {} |-> store[x]]

\* cleanup_conversation
CleanupConversation(store, k) ==
    IF k \in DOMAIN store
    THEN [x \in DOMAIN store \ {k} |-> store[x]]
    ELSE store

\* no stream_completion frame is being looked into
NoAdapter == [kind |-> "none"]

\* the handler has sent nothing to the provider
NoCall == [kind |-> "none"]

\* main() runs one generator at a time
NoHandlers == <<>>

Init ==
    /\ env \in Envs
    /\ conversations = EmptyStore
    /\ pc = "read"
    /\ line = NoLine
    /\ request_id = Absent
    /\ tool_call = NoToolCall
    /\ nevents = 0
    /\ nlines = 0
    /\ out = <<>>
    /\ yielded = <<>>
    /\ calls = 0
    /\ before = EmptyStore
    /\ resumed = {}
    /\ adapter = NoAdapter
    /\ call = NoCall
    /\ handlers = NoHandlers
    /\ main_request = Absent
    /\ after_malformed = FALSE

\* main(): `for line in sys.stdin` takes the next line
\* Forward with a router that keeps thinking events to itself
Forward_DropThinking(printed, event) ==
    IF event.type = "thinking" THEN printed ELSE Append(printed, event)

\* `yield event`, printed by main()
Forward(printed, event) == Append(printed, event)

\* ExceptError with an except clause that swallows the exception
ExceptError_Swallow(printed, message) == printed

\* process_request: `except Exception as e: yield error`
ExceptError(printed, message) == Append(printed, ErrorEvent(message))

CanRead == pc = "read" /\ nlines < MaxLines

\* main(): `request = json.loads(line)` binds `request` to a new object,
\* whose address is `address` when a handler takes it as its key
Bind(address) == main_request' = address

TakeLine(l) ==
    /\ line' = l
    /\ after_malformed' = (line \in MalformedLines)
    /\ nlines' = nlines + 1
    /\ before' = conversations
    /\ yielded' = <<>>
    /\ UNCHANGED <<adapter, handlers, env, nevents>>

\* the handling of `line` ends with the events es and without a provider call
Reply(es) ==
    /\ out' = es
    /\ pc' = "read"
    /\ calls' = 0
    /\ call' = NoCall
    /\ UNCHANGED <<conversations, request_id, tool_call, resumed>>

\* ReadMalformed in a loop that drops its request before it parses the
\* next line (`request = None` ahead of json.loads)
ReadMalformed_Unbind ==
    /\ CanRead
    /\ \E l \in MalformedLines :
        /\ ~JsonLoads(l).ok
        /\ TakeLine(l)
        /\ Bind(Absent)
        /\ Reply(<< ErrorEvent("Invalid JSON: " \o JsonLoads(l).message) >>)

\* main(): json.loads fails before `request` is bound anew, the except
\* clause prints one error
ReadMalformed ==
    /\ CanRead
    /\ \E l \in MalformedLines :
        /\ ~JsonLoads(l).ok
        /\ TakeLine(l)
        /\ UNCHANGED main_request
        /\ Reply(<< ErrorEvent("Invalid JSON: " \o JsonLoads(l).message) >>)

\* process_request: request.get raises because the value is not a dict
ReadNotAnObject ==
    /\ CanRead
    /\ TakeLine(Encode(NotAnObject))
    /\ Bind(Absent)
    /\ Reply(ExceptError(<<>>, "'list' object has no attribute 'get'"))

\* process_request: the type is neither complete nor tool_response
ReadUnknownTypeOn(request) ==
    /\ request.type \notin {"complete", "tool_response"}
    /\ TakeLine(Encode(request))
    /\ Bind(Absent)
    /\ Reply(<< ErrorEvent("Unknown request type: " \o
                   (IF request.type = Absent THEN "None" ELSE request.type)) >>)

ReadUnknownType ==
    /\ CanRead
    /\ \E request \in OtherRequests : ReadUnknownTypeOn(request)

(***************************************************************************)
(* handle_complete_request                                                 *)
(***************************************************************************)
\* the request's config: Config(**request['config']) when the request has
\* one, Config.from_env() otherwise
ResolveConfig(request, e) ==
    IF request.config # NoConfig THEN ConfigInit(request.config) ELSE ConfigFromEnv(e)

KnownProvider(provider) == provider \in {"anthropic", "openai", "local"}

\* AnthropicClient(api_key, model) / OpenAIClient(api_key, model, base_url)
MakeClient(config) ==
    IF config.provider = "anthropic"
    THEN [kind |-> "anthropic", api_key |-> config.api_key, model |-> config.model,
          base_url |-> Absent]
    ELSE [kind |-> "openai", api_key |-> config.api_key, model |-> config.model,
          base_url |-> config.base_url]

ToolsFor(config) ==
    IF config.provider = "anthropic"
    THEN ConvertToolsForAnthropic(ToolDefinitions)
    ELSE ToolDefinitions

\* context, then a blank line and the prompt when there is one
UserMessage(context, prompt) ==
    IF Truthy(prompt) THEN context \o "\n\n" \o prompt ELSE context

\* the entry stored before the stream starts
NewConversation(config, user_message) ==
    [config |-> config,
     client |-> MakeClient(config),
     tools |-> ToolsFor(config),
     is_anthropic |-> (config.provider = "anthropic"),
     user_message |-> user_message,
     tool_calls |-> <<>>,
     completion_parts |-> <<>>]

\* the address of the object main()'s `request` is bound to, which is alive
\* while json.loads builds the next request: known when a handler took it
\* as its key
LiveAddresses ==
    IF main_request = Absent THEN {} ELSE {main_request}

\* an address no stored conversation is keyed by: the next name
FreshAddress(store) ==
    LET used == { i \in 1..Len(GeneratedNames) : GeneratedNames[i] \in DOMAIN store }
    IN  IF used = {} THEN GeneratedNames[1]
        ELSE GeneratedNames[(CHOOSE i \in used : \A j \in used : j <= i) + 1]

\* str(id(request)): id() is unique among the objects alive at one time
\* only, so the address is a fresh one or that of an earlier request which
\* main() has dropped, whose conversation may still be stored
Addresses(store) ==
    ({FreshAddress(store)} \cup (DOMAIN store \cap GeneratedIds)) \ LiveAddresses

\* request.get('request_id', str(id(request)))
RequestIdChoices(request) ==
    IF request.request_id # Absent THEN {request.request_id}
    ELSE Addresses(conversations)

\* Record with new entries put at the front of the lists
Record_Prepend(store, rid, event) ==
    IF event.type = "tool_call"
    THEN [store EXCEPT ![rid].tool_calls = << event >> \o @]
    ELSE IF event.type = "completion"
    THEN [store EXCEPT ![rid].completion_parts = << event.content >> \o @]
    ELSE store

\* the loop body before `yield event`: a tool_call is appended to the
\* conversation's tool_calls, a completion's content to completion_parts
Record(store, rid, event) ==
    IF event.type = "tool_call"
    THEN [store EXCEPT ![rid].tool_calls = Append(@, event)]
    ELSE IF event.type = "completion"
    THEN [store EXCEPT ![rid].completion_parts = Append(@, event.content)]
    ELSE store

\* the system prompt of stream_completion
SystemPrompt == "You are a precise code completion assistant. ..."

\* the request client.stream_completion sends: messages.stream(...) of the
\* Anthropic adapter, chat.completions.create(...) of the OpenAI adapter,
\* both with `tools=tools if tools else None`
InitialCall(client, user_message, tools) ==
    IF client.kind = "anthropic"
    THEN [kind |-> "anthropic", model |-> client.model, max_tokens |-> 4096,
          system |-> SystemPrompt,
          messages |-> << [role |-> "user", content |-> user_message] >>,
          tools |-> IF tools = <<>> THEN Absent ELSE tools]
    ELSE [kind |-> "openai", model |-> client.model, stream |-> TRUE,
          messages |-> << [role |-> "system", content |-> SystemPrompt],
                          [role |-> "user", content |-> user_message] >>,
          tools |-> IF tools = <<>> THEN Absent ELSE tools]

\* Config(**config_dict) or Config.from_env() raises
CompleteConfigErrorOn(request) ==
    LET resolved == ResolveConfig(request, env) IN
    /\ ~resolved.ok
    /\ TakeLine(Encode(request))
    /\ Bind(Absent)
    /\ Reply(ExceptError(<<>>, resolved.message))

CompleteConfigError ==
    /\ CanRead
    /\ \E request \in CompleteRequests : CompleteConfigErrorOn(request)

\* the provider is none of anthropic, openai, local
CompleteUnknownProviderOn(request) ==
    LET resolved == ResolveConfig(request, env) IN
    /\ resolved.ok
    /\ ~KnownProvider(resolved.value.provider)
    /\ TakeLine(Encode(request))
    /\ Bind(Absent)
    /\ Reply(<< ErrorEvent("Unknown provider: " \o resolved.value.provider) >>)

CompleteUnknownProvider ==
    /\ CanRead
    /\ \E request \in CompleteRequests : CompleteUnknownProviderOn(request)

\* request['context'] raises KeyError
CompleteMissingContextOn(request) ==
    LET resolved == ResolveConfig(request, env) IN
    /\ resolved.ok
    /\ KnownProvider(resolved.value.provider)
    /\ request.context = Absent
    /\ TakeLine(Encode(request))
    /\ Bind(Absent)
    /\ Reply(ExceptError(<<>>, "'context'"))

CompleteMissingContext ==
    /\ CanRead
    /\ \E request \in CompleteRequests : CompleteMissingContextOn(request)

\* the conversation is stored under rid and client.stream_completion is
\* called
CompleteStartWith(request, rid) ==
    LET resolved == ResolveConfig(request, env) IN
    /\ resolved.ok
    /\ KnownProvider(resolved.value.provider)
    /\ request.context # Absent
    /\ TakeLine(Encode(request))
    /\ Bind(IF request.request_id = Absent THEN rid ELSE Absent)
    /\ request_id' = rid
    /\ conversations' =
           StorePut(conversations, rid,
                    NewConversation(resolved.value,
                        UserMessage(request.context, request.prompt)))
    /\ resumed' = resumed \ {rid}
    /\ call' = InitialCall(MakeClient(resolved.value),
                           UserMessage(request.context, request.prompt),
                           ToolsFor(resolved.value))
    /\ pc' = "complete"
    /\ out' = <<>>
    /\ calls' = 1
    /\ UNCHANGED tool_call

CompleteStartOn(request) ==
    \E rid \in RequestIdChoices(request) : CompleteStartWith(request, rid)

CompleteStart ==
    /\ CanRead
    /\ \E request \in CompleteRequests : CompleteStartOn(request)

\* CompleteEvent under a transport loop that collects the router's events
\* and writes them when the request is over: the event is pulled, not printed
CompleteEvent_Buffered ==
    /\ pc = "complete"
    /\ nevents < MaxEvents
    /\ \E event \in AdapterEvents(conversations[request_id].is_anthropic) :
        /\ conversations' = Record(conversations, request_id, event)
        /\ yielded' = Append(yielded, event)
        /\ out' = out
    /\ nevents' = nevents + 1
    /\ UNCHANGED <<after_malformed, main_request, adapter, call, handlers, env, pc, line, request_id, tool_call, nlines, calls, before, resumed>>

\* the adapter yields a completion, thinking or tool_call event
CompleteEvent ==
    /\ pc = "complete"
    /\ nevents < MaxEvents
    /\ \E event \in AdapterEvents(conversations[request_id].is_anthropic) :
        /\ conversations' = Record(conversations, request_id, event)
        /\ yielded' = Append(yielded, event)
        /\ out' = Forward(out, event)
    /\ nevents' = nevents + 1
    /\ UNCHANGED <<after_malformed, main_request, adapter, call, handlers, env, pc, line, request_id, tool_call, nlines, calls, before, resumed>>

\* the provider stream ends: the adapter yields done and returns
CompleteDone ==
    /\ pc = "complete"
    /\ conversations' = Record(conversations, request_id, DoneEvent)
    /\ yielded' = Append(yielded, DoneEvent)
    /\ out' = Forward(out, DoneEvent)
    /\ pc' = "read"
    /\ UNCHANGED <<after_malformed, main_request, adapter, call, handlers, env, line, request_id, tool_call, nevents, nlines, calls, before, resumed>>

\* the provider call raises, at its start or in mid-stream
CompleteFail ==
    /\ pc = "complete"
    /\ \E m \in ProviderFailures : out' = ExceptError(out, m)
    /\ pc' = "read"
    /\ UNCHANGED <<after_malformed, main_request, adapter, call, handlers, env, conversations, line, request_id, tool_call, nevents, nlines,
                   yielded, calls, before, resumed>>

(***************************************************************************)
(* handle_tool_response                                                    *)
(***************************************************************************)
\* `not request_id or request_id not in conversations`
InvalidRequestId(rid, store) == ~Truthy(rid) \/ rid \notin DOMAIN store

\* the first pending tool call whose id is tool_call_id, None without one
FindToolCall(tool_calls, tool_call_id) ==
    LET hits == { i \in 1..Len(tool_calls) : tool_calls[i].id = tool_call_id }
    IN  IF hits = {} THEN NoToolCall
        ELSE tool_calls[CHOOSE i \in hits : \A j \in hits : i <= j]

\* what the provider sends on a resumed Anthropic stream
AnthropicResumeEvents ==
    { [type |-> "content_block_delta", delta |-> [type |-> "text_delta", text |-> t]] : t \in Text }
    \cup { [type |-> "content_block_delta", delta |-> [type |-> "thinking_delta", thinking |-> "hm"]],
           [type |-> "content_block_delta", delta |-> [type |-> "input_json_delta", partial_json |-> "{}"]],
           [type |-> "content_block_start", content_block |-> [type |-> "tool_use", id |-> "t2", name |-> "get_implementation"]],
           [type |-> "message_stop"] }

\* what the provider sends on a resumed OpenAI stream
OpenAIResumeChunks ==
    { [choices |-> << [delta |-> [content |-> c, tool_calls |-> <<>>]] >>] : c \in Text \cup {"", Absent} }
    \cup { [choices |-> << [delta |-> [content |-> Absent, tool_calls |-> <<"t2">>]] >>],
           [choices |-> <<>>] }

\* ContinueAnthropicYield that also passes the model's reasoning on
ContinueAnthropicYield_Thinking(event) ==
    IF event.type = "content_block_delta" /\ "text" \in DOMAIN event.delta
    THEN << CompletionEvent(event.delta.text) >>
    ELSE IF event.type = "content_block_delta" /\ "thinking" \in DOMAIN event.delta
    THEN << ThinkingEvent(event.delta.thinking) >>
    ELSE <<>>

\* continue_anthropic_conversation, the body of `for event in stream`
ContinueAnthropicYield(event) ==
    IF event.type = "content_block_delta" /\ "text" \in DOMAIN event.delta
    THEN << CompletionEvent(event.delta.text) >>
    ELSE <<>>

\* continue_openai_conversation, the body of `for chunk in stream`
ContinueOpenAIYield(chunk) ==
    IF chunk.choices # <<>> /\ Truthy(chunk.choices[1].delta.content)
    THEN << CompletionEvent(chunk.choices[1].delta.content) >>
    ELSE <<>>

\* what the resumed stream of a conversation may deliver
ResumeWire(is_anthropic) ==
    IF is_anthropic THEN AnthropicResumeEvents ELSE OpenAIResumeChunks

\* what continue_*_conversation yields for one delivery of its stream
ContinueYield(is_anthropic, w) ==
    IF is_anthropic THEN ContinueAnthropicYield(w) ELSE ContinueOpenAIYield(w)

\* request.get('content', '')
ToolContent(request) == IF request.content = Absent THEN "" ELSE request.content

\* "".join(parts)
RECURSIVE Join(_)
Join(parts) == IF parts = <<>> THEN "" ELSE Head(parts) \o Join(Tail(parts))

\* json.dumps on the args a tool call of the model carries
JsonDumps(args) ==
    IF args = EmptyArgs THEN "{}" ELSE "{\"function_name\": \"" \o args.function_name \o "\"}"

\* continue_anthropic_conversation: the request sent to the provider
ContinueAnthropicCall(conv, found, tool_content) ==
    [kind |-> "anthropic", model |-> conv.client.model, max_tokens |-> 4096,
     messages |->
        << [role |-> "user", content |-> conv.user_message],
           [role |-> "assistant",
            content |->
               (IF conv.completion_parts # <<>>
                THEN << [type |-> "text", text |-> Join(conv.completion_parts)] >>
                ELSE <<>>)
               \o << [type |-> "tool_use", id |-> found.id, name |-> found.name,
                       input |-> found.args] >>],
           [role |-> "user",
            content |-> << [type |-> "tool_result", tool_use_id |-> found.id,
                            content |-> tool_content] >>] >>,
     tools |-> conv.tools]

\* continue_openai_conversation: the request sent to the provider
ContinueOpenAICall(conv, found, tool_content) ==
    [kind |-> "openai", model |-> conv.client.model, stream |-> TRUE,
     messages |->
        << [role |-> "system", content |-> "You are a code completion assistant."],
           [role |-> "user", content |-> conv.user_message],
           [role |-> "assistant", content |-> Absent,
            tool_calls |-> << [id |-> found.id, type |-> "function",
                               function |-> [name |-> found.name,
                                             arguments |-> JsonDumps(found.args)]] >>],
           [role |-> "tool", tool_call_id |-> found.id, content |-> tool_content] >>,
     tools |-> conv.tools]

\* ToolResponseInvalidId without the `return`: the handler goes on to
\* conversations[request_id], whose KeyError is reported as a second error
ToolResponseInvalidId_NoReturn ==
    /\ CanRead
    /\ \E request \in ToolResponseRequests :
        /\ InvalidRequestId(request.request_id, conversations)
        /\ TakeLine(Encode(request))
        /\ Bind(Absent)
        /\ Reply(<< ErrorEvent("Invalid or expired request_id"),
                    ErrorEvent("KeyError") >>)

\* the request_id is missing, empty or not in the store
ToolResponseInvalidIdOn(request) ==
    /\ InvalidRequestId(request.request_id, conversations)
    /\ TakeLine(Encode(request))
    /\ Bind(Absent)
    /\ Reply(<< ErrorEvent("Invalid or expired request_id") >>)

ToolResponseInvalidId ==
    /\ CanRead
    /\ \E request \in ToolResponseRequests : ToolResponseInvalidIdOn(request)

\* no pending tool call has the tool_call_id: error and return
ToolResponseNotFoundOn(request) ==
    /\ ~InvalidRequestId(request.request_id, conversations)
    /\ FindToolCall(conversations[request.request_id].tool_calls,
                    request.tool_call_id) = NoToolCall
    /\ TakeLine(Encode(request))
    /\ Bind(Absent)
    /\ Reply(<< ErrorEvent("Tool call " \o
                   (IF request.tool_call_id = Absent THEN "None"
                    ELSE request.tool_call_id) \o " not found") >>)

ToolResponseNotFound ==
    /\ CanRead
    /\ \E request \in ToolResponseRequests : ToolResponseNotFoundOn(request)

\* the tool call is found: continue_*_conversation calls the provider
ToolResponseStartOn(request) ==
    /\ ~InvalidRequestId(request.request_id, conversations)
    /\ LET found == FindToolCall(conversations[request.request_id].tool_calls,
                                 request.tool_call_id)
       IN  /\ found # NoToolCall
           /\ tool_call' = found
           /\ call' = IF conversations[request.request_id].is_anthropic
                      THEN ContinueAnthropicCall(conversations[request.request_id],
                               found, ToolContent(request))
                      ELSE ContinueOpenAICall(conversations[request.request_id],
                               found, ToolContent(request))
    /\ TakeLine(Encode(request))
    /\ Bind(Absent)
    /\ request_id' = request.request_id
    /\ pc' = "resume"
    /\ out' = <<>>
    /\ calls' = 1
    /\ UNCHANGED <<conversations, resumed>>

ToolResponseStart ==
    /\ CanRead
    /\ \E request \in ToolResponseRequests : ToolResponseStartOn(request)

\* the resumed stream delivers one provider event
ResumeEvent ==
    /\ pc = "resume"
    /\ nevents < MaxEvents
    /\ \E w \in ResumeWire(conversations[request_id].is_anthropic) :
        LET es == ContinueYield(conversations[request_id].is_anthropic, w) IN
        /\ yielded' = yielded \o es
        /\ out' = IF es = <<>> THEN out ELSE Forward(out, es[1])
    /\ nevents' = nevents + 1
    /\ UNCHANGED <<after_malformed, main_request, adapter, call, handlers, env, conversations, pc, line, request_id, tool_call, nlines,
                   calls, before, resumed>>

\* the resumed stream ends: done is yielded and printed, and
\* handle_tool_response stays suspended in its `yield from`
ResumeDone ==
    /\ pc = "resume"
    /\ yielded' = Append(yielded, DoneEvent)
    /\ out' = Forward(out, DoneEvent)
    /\ resumed' = resumed \cup {request_id}
    /\ pc' = "cleanup"
    /\ UNCHANGED <<after_malformed, main_request, adapter, call, handlers, env, conversations, line, request_id, tool_call,
                   nevents, nlines, calls, before>>

\* main() asks for the next event: the continued stream returns, the
\* `yield from` ends, cleanup_conversation runs and the handler returns
ResumeCleanup ==
    /\ pc = "cleanup"
    /\ conversations' = CleanupConversation(conversations, request_id)
    /\ pc' = "read"
    /\ tool_call' = NoToolCall
    /\ UNCHANGED <<after_malformed, main_request, adapter, call, handlers, env, line, request_id, nevents, nlines, out, yielded,
                   calls, before, resumed>>

\* the resumed provider call raises: the exception leaves
\* handle_tool_response before cleanup_conversation is reached
ResumeFail ==
    /\ pc = "resume"
    /\ \E m \in ProviderFailures : out' = ExceptError(out, m)
    /\ resumed' = resumed \cup {request_id}
    /\ pc' = "read"
    /\ tool_call' = NoToolCall
    /\ UNCHANGED <<after_malformed, main_request, adapter, call, handlers, env, conversations, line, request_id, nevents, nlines, yielded,
                   calls, before>>

(***************************************************************************)
(* The transport loop.                                                     *)
(***************************************************************************)
Next ==
    \/ ReadMalformed
    \/ ReadNotAnObject
    \/ ReadUnknownType
    \/ CompleteConfigError
    \/ CompleteUnknownProvider
    \/ CompleteMissingContext
    \/ CompleteStart
    \/ CompleteEvent
    \/ CompleteDone
    \/ CompleteFail
    \/ ToolResponseInvalidId
    \/ ToolResponseNotFound
    \/ ToolResponseStart
    \/ ResumeEvent
    \/ ResumeDone
    \/ ResumeCleanup
    \/ ResumeFail

Spec == Init /\ [][Next]_vars

(***************************************************************************)
(* Configuration resolution: the first complete request of a process, over *)
(* the environments and the body configs that resolution distinguishes.    *)
(***************************************************************************)
\* environments: the provider variable unset, valid or invalid; the keys of
\* both hosted providers set or unset; model, timeout and tool-call limit
\* set or unset
ConfigEnvs ==
    { [NoEnv EXCEPT !["AI_REQUEST_PROVIDER"] = p,
                    !["ANTHROPIC_API_KEY"] = k,
                    !["OPENAI_API_KEY"] = k,
                    !["AI_REQUEST_MODEL"] = m,
                    !["AI_REQUEST_TIMEOUT"] = t,
                    !["AI_REQUEST_MAX_TOOL_CALLS"] = t] :
        p \in {Absent, "openai", "local", "bogus"},
        k \in {Absent, "sk-env"},
        m \in {Absent, "env-model"},
        t \in {Absent, "5"} }

\* body configs: every field present or missing, the key also empty
ConfigDicts ==
    { [EmptyDict EXCEPT !.provider = p, !.model = m, !.api_key = k, !.timeout = t] :
        p \in {Absent, "anthropic", "openai", "local", "bogus"},
        m \in {Absent, "m"},
        k \in {Absent, "", "sk-body"},
        t \in {NoNumber, 7} }

ConfigRequests ==
    { Request("complete", "r1", "ctx", Absent, c, Absent, Absent) :
        c \in ConfigDicts \cup {NoConfig} }

\* main() is about to read the first line of its input
AtFirstLine == pc = "read" /\ line = NoLine

InitConfig ==
    /\ env \in ConfigEnvs
    /\ conversations = EmptyStore
    /\ pc = "read"
    /\ line = NoLine
    /\ request_id = Absent
    /\ tool_call = NoToolCall
    /\ nevents = 0
    /\ nlines = 0
    /\ out = <<>>
    /\ yielded = <<>>
    /\ calls = 0
    /\ before = EmptyStore
    /\ resumed = {}
    /\ adapter = NoAdapter
    /\ call = NoCall
    /\ handlers = NoHandlers
    /\ main_request = Absent
    /\ after_malformed = FALSE

ResolveFails ==
    /\ AtFirstLine
    /\ \E request \in ConfigRequests : CompleteConfigErrorOn(request)

ResolveUnknownProvider ==
    /\ AtFirstLine
    /\ \E request \in ConfigRequests : CompleteUnknownProviderOn(request)

ResolveStart ==
    /\ AtFirstLine
    /\ \E request \in ConfigRequests : CompleteStartOn(request)

NextConfig ==
    \/ ResolveFails
    \/ ResolveUnknownProvider
    \/ ResolveStart

SpecConfig == InitConfig /\ [][NextConfig]_vars

(***************************************************************************)
(* The provider adapters, providers/anthropic_client.py and                *)
(* providers/openai_client.py: one step is one turn of the loop over the   *)
(* provider's stream.                                                      *)
(***************************************************************************)
\* provider events one stream delivers
MaxWire == 4

\* the fragments of the encoded arguments {"function_name": "foo"}
Fragments == { "{\"function_name\": ", "\"foo\"}" }

\* json.loads on the texts the fragments concatenate to
JsonLoadsArgs(text) ==
    IF text = "{\"function_name\": \"foo\"}"
    THEN Ok([function_name |-> "foo"])
    ELSE Raise("JSONDecodeError")

\* `json.loads(text) if text else {}`, {} on JSONDecodeError
ParseArgs(text) ==
    IF text = "" THEN EmptyArgs
    ELSE IF JsonLoadsArgs(text).ok THEN JsonLoadsArgs(text).value
    ELSE EmptyArgs

\* Accumulate with the fragment put in front of the text
Accumulate_Prepend(text, fragment) == fragment \o text

\* `tool_input_json += partial_json`, `['arguments'] += arguments`
Accumulate(text, fragment) == text \o fragment

\* current_tool = None
NoTool == [absent |-> TRUE]

\* events of an Anthropic message stream
TextDelta(t) ==
    [type |-> "content_block_delta", delta |-> [type |-> "text_delta", text |-> t]]
ThinkingDelta(t) ==
    [type |-> "content_block_delta", delta |-> [type |-> "thinking_delta", thinking |-> t]]
InputJsonDelta(f) ==
    [type |-> "content_block_delta", delta |-> [type |-> "input_json_delta", partial_json |-> f]]
ToolUseStart(i) ==
    [type |-> "content_block_start",
     content_block |-> [type |-> "tool_use", id |-> i, name |-> "get_implementation"]]
TextStart == [type |-> "content_block_start", content_block |-> [type |-> "text"]]
BlockStop == [type |-> "content_block_stop"]
MessageStop == [type |-> "message_stop"]

AnthropicWire ==
    { ThinkingDelta("hm"), TextStart, BlockStop, MessageStop }
    \cup { TextDelta(t) : t \in Text }
    \cup { InputJsonDelta(f) : f \in Fragments }
    \cup { ToolUseStart(i) : i \in ToolIds }

\* AnthropicClient.stream_completion, the body of `for event in stream` up
\* to its yield or, without one, to its end: the frame's locals there, the
\* event yielded, and the status of the frame ("tool_call" when it is
\* suspended at the yield of a tool call with the reset still to run)
AnthropicStep(local, event) ==
    CASE event.type = "content_block_delta" ->
           IF "text" \in DOMAIN event.delta
           THEN [local |-> local, yield |-> << CompletionEvent(event.delta.text) >>,
                 status |-> "running"]
           ELSE IF "thinking" \in DOMAIN event.delta
           THEN [local |-> local, yield |-> << ThinkingEvent(event.delta.thinking) >>,
                 status |-> "running"]
           ELSE IF event.delta.type = "input_json_delta" /\ "partial_json" \in DOMAIN event.delta
           THEN [local |-> [local EXCEPT !.tool_input_json =
                                Accumulate(@, event.delta.partial_json)],
                 yield |-> <<>>, status |-> "running"]
           ELSE [local |-> local, yield |-> <<>>, status |-> "running"]
      [] event.type = "content_block_start" ->
           IF event.content_block.type = "tool_use"
           THEN [local |-> [current_tool |-> [id |-> event.content_block.id,
                                              name |-> event.content_block.name],
                            tool_input_json |-> ""],
                 yield |-> <<>>, status |-> "running"]
           ELSE [local |-> local, yield |-> <<>>, status |-> "running"]
      [] event.type = "content_block_stop" ->
           IF local.current_tool # NoTool
           THEN [local |-> local,
                 yield |-> << ToolCallEvent(local.current_tool.id, local.current_tool.name,
                                            ParseArgs(local.tool_input_json)) >>,
                 status |-> "tool_call"]
           ELSE [local |-> local, yield |-> <<>>, status |-> "running"]
      [] OTHER -> [local |-> local, yield |-> <<>>, status |-> "running"]

\* the statements after the yield of a tool call:
\* `current_tool = None; tool_input_json = ""`
AnthropicAfterToolCall(local) == [current_tool |-> NoTool, tool_input_json |-> ""]

\* chunks of an OpenAI chat completion stream
Chunk(content, tool_calls, finish_reason) ==
    [choices |-> << [delta |-> [content |-> content, tool_calls |-> tool_calls],
                     finish_reason |-> finish_reason] >>]
NoChoices == [choices |-> <<>>]
ToolCallChunk(index, id, name, arguments) ==
    [index |-> index, id |-> id, function |-> [name |-> name, arguments |-> arguments]]

\* the id that opens the call of an index
IdOfIndex(index) == IF index = 0 THEN "t1" ELSE "t2"

OpenAIWire ==
    { NoChoices,
      Chunk("", <<>>, Absent),
      Chunk(Absent, <<>>, "tool_calls"),
      Chunk("a", <<>>, "tool_calls"),
      Chunk(Absent, <<>>, "stop") }
    \cup { Chunk(t, <<>>, Absent) : t \in Text }
    \cup { Chunk(Absent, << ToolCallChunk(i, IdOfIndex(i), "get_implementation", "") >>, Absent) :
             i \in {0, 1} }
    \cup { Chunk(Absent, << ToolCallChunk(i, Absent, Absent, f) >>, Absent) :
             i \in {0, 1}, f \in Fragments }

\* the position of the call of `index` in tool_calls, 0 without one
PositionOf(tool_calls, index) ==
    LET hits == { i \in 1..Len(tool_calls) : tool_calls[i].index = index }
    IN  IF hits = {} THEN 0 ELSE CHOOSE i \in hits : TRUE

\* the body of `for tool_call_chunk in delta.tool_calls`; the dict keeps
\* its keys in the order of their first appearance
AccumulateToolCall(tool_calls, c) ==
    LET known == PositionOf(tool_calls, c.index) # 0
        calls1 == IF known THEN tool_calls
                  ELSE Append(tool_calls,
                              [index |-> c.index,
                               id |-> IF Truthy(c.id) THEN c.id ELSE "",
                               name |-> "", arguments |-> ""])
        at == PositionOf(calls1, c.index)
        calls2 == IF Truthy(c.id) THEN [calls1 EXCEPT ![at].id = c.id] ELSE calls1
        calls3 == IF Truthy(c.function.name)
                  THEN [calls2 EXCEPT ![at].name = c.function.name] ELSE calls2
    IN  IF Truthy(c.function.arguments)
        THEN [calls3 EXCEPT ![at].arguments = Accumulate(@, c.function.arguments)]
        ELSE calls3

RECURSIVE AccumulateToolCalls(_, _)
AccumulateToolCalls(tool_calls, chunks) ==
    IF chunks = <<>> THEN tool_calls
    ELSE AccumulateToolCalls(AccumulateToolCall(tool_calls, Head(chunks)), Tail(chunks))

\* `for tool_call in tool_calls.values()` from the call at `position` up to
\* its yield: the frame is suspended in the loop ("tool_call") while calls
\* are left after the one yielded
OpenAIToolCalls(local, position) ==
    IF position > Len(local.tool_calls)
    THEN [local |-> local, yield |-> <<>>, status |-> "running", position |-> 0]
    ELSE [local |-> local,
          yield |-> << ToolCallEvent(local.tool_calls[position].id,
                                     local.tool_calls[position].name,
                                     ParseArgs(local.tool_calls[position].arguments)) >>,
          status |-> IF position < Len(local.tool_calls) THEN "tool_call" ELSE "running",
          position |-> IF position < Len(local.tool_calls) THEN position ELSE 0]

\* the body of `for chunk in stream` after the text of the chunk: the tool
\* calls are accumulated and, on finish_reason "tool_calls", the first is
\* yielded
OpenAIAfterContent(local, chunk) ==
    LET accumulated ==
            [tool_calls |-> AccumulateToolCalls(local.tool_calls,
                                                chunk.choices[1].delta.tool_calls)]
    IN  IF chunk.choices[1].finish_reason = "tool_calls"
        THEN OpenAIToolCalls(accumulated, 1)
        ELSE [local |-> accumulated, yield |-> <<>>, status |-> "running", position |-> 0]

\* OpenAIClient.stream_completion, the body of `for chunk in stream` up to
\* its first yield or, without one, to its end; the frame is suspended at
\* the yield of the text ("content") when the rest of the body has an effect
OpenAIStep(local, chunk) ==
    IF chunk.choices = <<>>
    THEN [local |-> local, yield |-> <<>>, status |-> "running", position |-> 0]
    ELSE IF Truthy(chunk.choices[1].delta.content)
    THEN LET rest == OpenAIAfterContent(local, chunk)
         IN  [local |-> local,
              yield |-> << CompletionEvent(chunk.choices[1].delta.content) >>,
              status |-> IF rest.local = local /\ rest.yield = <<>>
                         THEN "running" ELSE "content",
              position |-> 0]
    ELSE OpenAIAfterContent(local, chunk)

\* the frame of stream_completion when the stream is opened
AnthropicFrame ==
    [kind |-> "anthropic", status |-> "running", wire |-> <<>>,
     local |-> [current_tool |-> NoTool, tool_input_json |-> ""]]
OpenAIFrame ==
    [kind |-> "openai", status |-> "running", wire |-> <<>>,
     local |-> [tool_calls |-> <<>>], position |-> 0]

InitAdapter ==
    /\ adapter \in {AnthropicFrame, OpenAIFrame}
    /\ env = NoEnv
    /\ conversations = EmptyStore
    /\ pc = "read"
    /\ line = NoLine
    /\ request_id = Absent
    /\ tool_call = NoToolCall
    /\ nevents = 0
    /\ nlines = 0
    /\ out = <<>>
    /\ yielded = <<>>
    /\ calls = 0
    /\ before = EmptyStore
    /\ resumed = {}
    /\ call = NoCall
    /\ handlers = NoHandlers
    /\ main_request = Absent
    /\ after_malformed = FALSE

\* the router's variables, which a step inside the adapter leaves alone
router == <<env, conversations, pc, line, request_id, tool_call, nevents, nlines,
            out, calls, before, resumed, call, handlers, main_request,
            after_malformed>>

\* the Anthropic stream delivers an event
AnthropicEvent ==
    /\ adapter.kind = "anthropic"
    /\ adapter.status = "running"
    /\ Len(adapter.wire) < MaxWire
    /\ \E event \in AnthropicWire :
        LET step == AnthropicStep(adapter.local, event) IN
        /\ adapter' = [adapter EXCEPT !.local = step.local, !.status = step.status,
                                      !.wire = Append(@, event)]
        /\ yielded' = yielded \o step.yield
    /\ UNCHANGED router

\* the consumer resumes the Anthropic generator at the yield of a tool call
AnthropicResume ==
    /\ adapter.kind = "anthropic"
    /\ adapter.status = "tool_call"
    /\ adapter' = [adapter EXCEPT !.local = AnthropicAfterToolCall(@),
                                  !.status = "running"]
    /\ UNCHANGED yielded
    /\ UNCHANGED router

\* OpenAIChunk for a stream_completion whose events come out newest first
OpenAIChunk_Prepend ==
    /\ adapter.kind = "openai"
    /\ adapter.status = "running"
    /\ Len(adapter.wire) < MaxWire
    /\ \E chunk \in OpenAIWire :
        LET step == OpenAIStep(adapter.local, chunk) IN
        /\ adapter' = [adapter EXCEPT !.local = step.local, !.status = step.status,
                                      !.position = step.position,
                                      !.wire = Append(@, chunk)]
        /\ yielded' = step.yield \o yielded
    /\ UNCHANGED router

\* the OpenAI stream delivers a chunk
OpenAIChunk ==
    /\ adapter.kind = "openai"
    /\ adapter.status = "running"
    /\ Len(adapter.wire) < MaxWire
    /\ \E chunk \in OpenAIWire :
        LET step == OpenAIStep(adapter.local, chunk) IN
        /\ adapter' = [adapter EXCEPT !.local = step.local, !.status = step.status,
                                      !.position = step.position,
                                      !.wire = Append(@, chunk)]
        /\ yielded' = yielded \o step.yield
    /\ UNCHANGED router

\* the consumer resumes the OpenAI generator inside the body of the loop:
\* it runs to its next yield or to the end of the body
OpenAIResume ==
    /\ adapter.kind = "openai"
    /\ adapter.status \in {"content", "tool_call"}
    /\ LET step == IF adapter.status = "content"
                   THEN OpenAIAfterContent(adapter.local, adapter.wire[Len(adapter.wire)])
                   ELSE OpenAIToolCalls(adapter.local, adapter.position + 1) IN
        /\ adapter' = [adapter EXCEPT !.local = step.local, !.status = step.status,
                                      !.position = step.position]
        /\ yielded' = yielded \o step.yield
    /\ UNCHANGED router

\* the stream is exhausted: the loop ends and done is yielded
AdapterDone ==
    /\ adapter.kind # "none"
    /\ adapter.status = "running"
    /\ adapter' = [adapter EXCEPT !.status = "done"]
    /\ yielded' = Append(yielded, DoneEvent)
    /\ UNCHANGED router

\* the stream raises: the exception leaves stream_completion
AdapterFail ==
    /\ adapter.kind # "none"
    /\ adapter.status = "running"
    /\ adapter' = [adapter EXCEPT !.status = "raised"]
    /\ UNCHANGED yielded
    /\ UNCHANGED router

NextAdapter ==
    \/ AnthropicEvent
    \/ AnthropicResume
    \/ OpenAIChunk
    \/ OpenAIResume
    \/ AdapterDone
    \/ AdapterFail

SpecAdapter == InitAdapter /\ [][NextAdapter]_vars

(***************************************************************************)
(* Two requests handled in turns: each handler is a process_request        *)
(* generator over the one store, and one step is one next() on one of      *)
(* them, which runs it up to its next yield.  main() itself drives one     *)
(* generator to its end before it creates the next.                        *)
(***************************************************************************)
\* a provider stream raises
FailOutcome(m) == [type |-> "fail", message |-> m]

\* what the provider stream of a complete request delivers next
CompleteOutcomes ==
    { CompletionEvent("a"), ToolCallEvent("t1", "get_implementation", ArgsOf("t1")),
      DoneEvent }
    \cup { FailOutcome(m) : m \in ProviderFailures }

\* what a resumed stream makes continue_*_conversation yield next
ResumeOutcomes ==
    { CompletionEvent("a"), DoneEvent } \cup { FailOutcome(m) : m \in ProviderFailures }

\* the requests of the two handlers, and the addresses of the two request
\* objects, which are alive together
HandlerKeys == {"r1", "r2"}
HandlerAddresses == {"g1", "g2"}
HandlerRequests ==
    { Request("complete", k, "ctx", Absent, BodyConfig("anthropic", "m", "sk-body"),
              Absent, Absent) : k \in HandlerKeys }
    \cup { Request("tool_response", k, Absent, Absent, NoConfig, "t1", "result") :
              k \in HandlerKeys }

\* the store after complete requests for `keys` each yielded the tool call
\* t1 and done
StoreWith(keys) ==
    [k \in keys |->
        [NewConversation(ConfigInit(BodyConfig("anthropic", "m", "sk-body")).value, "ctx")
            EXCEPT !.tool_calls = << ToolCallEvent("t1", "get_implementation", ArgsOf("t1")) >>]]

\* a generator that has not been started, over the request at `address`
NewFrame(request, address) ==
    [pc |-> "new", request |-> request, address |-> address, request_id |-> Absent,
     found |-> NoToolCall, out |-> <<>>]

\* the generator returns after yielding the events es
Finish(frame, store, es) ==
    [frame |-> [frame EXCEPT !.pc = "over", !.out = @ \o es], store |-> store]

\* handle_complete_request, one turn of its loop: the adapter's event is
\* recorded in conversations[request_id] and yielded
StreamComplete(frame, store, ev) ==
    IF ev.type = "fail" THEN Finish(frame, store, ExceptError(<<>>, ev.message))
    ELSE IF ev = DoneEvent THEN Finish(frame, store, << DoneEvent >>)
    ELSE IF ev.type \in {"tool_call", "completion"} /\ frame.request_id \notin DOMAIN store
    THEN Finish(frame, store, ExceptError(<<>>, "'" \o frame.request_id \o "'"))
    ELSE [frame |-> [frame EXCEPT !.pc = "complete", !.out = Forward(@, ev)],
          store |-> Record(store, frame.request_id, ev)]

\* handle_complete_request up to its first yield; the key is
\* request.get('request_id', str(id(request)))
StartComplete(frame, store, e, ev) ==
    LET request == frame.request
        key == IF request.request_id = Absent THEN frame.address
               ELSE request.request_id
        resolved == ResolveConfig(request, e)
    IN  IF ~resolved.ok THEN Finish(frame, store, ExceptError(<<>>, resolved.message))
        ELSE IF ~KnownProvider(resolved.value.provider)
        THEN Finish(frame, store,
                    << ErrorEvent("Unknown provider: " \o resolved.value.provider) >>)
        ELSE IF request.context = Absent
        THEN Finish(frame, store, ExceptError(<<>>, "'context'"))
        ELSE StreamComplete(
                 [frame EXCEPT !.request_id = key],
                 StorePut(store, key,
                          NewConversation(resolved.value,
                              UserMessage(request.context, request.prompt))),
                 ev)

\* continue_*_conversation up to its next yield; after done is yielded the
\* generator is suspended in front of cleanup_conversation
StreamResume(frame, store, ev) ==
    IF ev.type = "fail" THEN Finish(frame, store, ExceptError(<<>>, ev.message))
    ELSE IF ev = DoneEvent
    THEN [frame |-> [frame EXCEPT !.pc = "cleanup", !.out = Forward(@, ev)], store |-> store]
    ELSE [frame |-> [frame EXCEPT !.pc = "resume", !.out = Forward(@, ev)], store |-> store]

\* handle_tool_response up to its first yield
StartResume(frame, store, ev) ==
    LET request == frame.request IN
    IF InvalidRequestId(request.request_id, store)
    THEN Finish(frame, store, << ErrorEvent("Invalid or expired request_id") >>)
    ELSE LET found == FindToolCall(store[request.request_id].tool_calls,
                                   request.tool_call_id)
         IN  IF found = NoToolCall
             THEN Finish(frame, store,
                         << ErrorEvent("Tool call " \o
                                (IF request.tool_call_id = Absent THEN "None"
                                 ELSE request.tool_call_id) \o " not found") >>)
             ELSE StreamResume([frame EXCEPT !.request_id = request.request_id,
                                             !.found = found],
                               store, ev)

\* one next() on the generator: process_request from its start dispatches
\* on the type, and a generator that has returned stays over
HandlerStep(frame, store, e, ev) ==
    CASE frame.pc = "new" /\ frame.request = NotAnObject ->
             Finish(frame, store, ExceptError(<<>>, "'list' object has no attribute 'get'"))
      [] frame.pc = "new" /\ frame.request # NotAnObject
                         /\ frame.request.type = "complete" ->
             StartComplete(frame, store, e, ev)
      [] frame.pc = "new" /\ frame.request # NotAnObject
                         /\ frame.request.type = "tool_response" ->
             StartResume(frame, store, ev)
      [] frame.pc = "new" /\ frame.request # NotAnObject
                         /\ frame.request.type \notin {"complete", "tool_response"} ->
             Finish(frame, store,
                    << ErrorEvent("Unknown request type: " \o
                           (IF frame.request.type = Absent THEN "None"
                            ELSE frame.request.type)) >>)
      [] frame.pc = "complete" -> StreamComplete(frame, store, ev)
      [] frame.pc = "resume" -> StreamResume(frame, store, ev)
      [] frame.pc = "cleanup" ->
             [frame |-> [frame EXCEPT !.pc = "over"],
              store |-> CleanupConversation(store, frame.request_id)]
      [] OTHER -> [frame |-> frame, store |-> store]

\* a handler: its generator over the shared store (actual), and the same
\* generator fed the same provider outcomes over a store no other handler
\* touches (solo, alone)
NewHandler(request, address, store) ==
    [actual |-> NewFrame(request, address), solo |-> NewFrame(request, address),
     alone |-> store]

InitInterleaved ==
    /\ conversations \in { StoreWith(keys) : keys \in SUBSET HandlerKeys }
    /\ handlers \in { [h \in {1, 2} |-> NewHandler(q[h], a[h], conversations)] :
                        q \in HandlerRequests \X HandlerRequests,
                        a \in { p \in HandlerAddresses \X HandlerAddresses : p[1] # p[2] } }
    /\ env = NoEnv
    /\ pc = "read"
    /\ line = NoLine
    /\ request_id = Absent
    /\ tool_call = NoToolCall
    /\ nevents = 0
    /\ nlines = 0
    /\ out = <<>>
    /\ yielded = <<>>
    /\ calls = 0
    /\ before = EmptyStore
    /\ resumed = {}
    /\ adapter = NoAdapter
    /\ call = NoCall
    /\ main_request = Absent
    /\ after_malformed = FALSE

\* main()'s own variables, which the two generators leave alone
transport == <<env, pc, line, request_id, tool_call, nevents, nlines, out, yielded,
               calls, before, resumed, adapter, call, main_request,
               after_malformed>>

\* the outcomes the provider may deliver to the handler's next step; a
\* stream that has delivered MaxEvents events ends or fails
OutcomesFor(frame) ==
    LET all == IF frame.request.type = "complete" THEN CompleteOutcomes
               ELSE ResumeOutcomes
    IN  IF Len(frame.out) < MaxEvents THEN all
        ELSE { ev \in all : ev = DoneEvent \/ ev.type = "fail" }

\* next() on handler h with the provider delivering ev
Advance(h, ev) ==
    LET a == HandlerStep(handlers[h].actual, conversations, env, ev)
        s == HandlerStep(handlers[h].solo, handlers[h].alone, env, ev)
    IN  /\ conversations' = a.store
        /\ handlers' = [handlers EXCEPT ![h] =
                           [actual |-> a.frame, solo |-> s.frame, alone |-> s.store]]
        /\ UNCHANGED transport

\* the first next() on a generator: the handler runs up to its first yield
HandlerStart ==
    \E h \in DOMAIN handlers :
        /\ handlers[h].actual.pc = "new"
        /\ \E ev \in OutcomesFor(handlers[h].actual) : Advance(h, ev)

\* a later next(): the handler pulls the next event of its stream
HandlerPull ==
    \E h \in DOMAIN handlers :
        /\ handlers[h].actual.pc \in {"complete", "resume"}
        /\ \E ev \in OutcomesFor(handlers[h].actual) : Advance(h, ev)

\* the next() after a resume yielded done: cleanup_conversation runs
HandlerCleanup ==
    \E h \in DOMAIN handlers :
        /\ handlers[h].actual.pc = "cleanup"
        /\ Advance(h, DoneEvent)

NextInterleaved ==
    \/ HandlerStart
    \/ HandlerPull
    \/ HandlerCleanup

SpecInterleaved == InitInterleaved /\ [][NextInterleaved]_vars

(***************************************************************************)
(* A resume looked into: one tool_response for a stored conversation, with *)
(* everything the continued provider stream delivers kept next to what     *)
(* continue_*_conversation yields for it.                                  *)
(***************************************************************************)
\* the conversations a complete request leaves behind: either provider,
\* one or two pending tool calls, with or without accumulated text
PendingConversations ==
    { [NewConversation(ConfigInit(BodyConfig(p, "m", "sk-body")).value, "ctx")
          EXCEPT !.tool_calls = [i \in 1..Len(ids) |->
                                    ToolCallEvent(ids[i], "get_implementation", ArgsOf(ids[i]))],
                 !.completion_parts = parts] :
        p \in {"anthropic", "openai"},
        ids \in { << "t1" >>, << "t2", "t1" >> },
        parts \in { <<>>, << "a" >> } }

\* the stream of the continuation before it has delivered anything
ResumeFrame == [kind |-> "resume", wire |-> <<>>]

InitResume ==
    /\ conversations \in { StorePut(EmptyStore, "r1", c) : c \in PendingConversations }
    /\ adapter = ResumeFrame
    /\ env = NoEnv
    /\ pc = "read"
    /\ line = NoLine
    /\ request_id = Absent
    /\ tool_call = NoToolCall
    /\ nevents = 0
    /\ nlines = 0
    /\ out = <<>>
    /\ yielded = <<>>
    /\ calls = 0
    /\ before = EmptyStore
    /\ resumed = {}
    /\ call = NoCall
    /\ handlers = NoHandlers
    /\ main_request = Absent
    /\ after_malformed = FALSE

\* the tool_response names a pending tool call: the provider is called
ResumeOpen ==
    /\ AtFirstLine
    /\ \E request \in ToolResponseRequests : ToolResponseStartOn(request)

\* the tool_response names no pending tool call
ResumeNotFound ==
    /\ AtFirstLine
    /\ \E request \in ToolResponseRequests : ToolResponseNotFoundOn(request)

\* the continued stream delivers w
ResumeDelivery ==
    /\ pc = "resume"
    /\ Len(adapter.wire) < MaxWire
    /\ \E w \in ResumeWire(conversations[request_id].is_anthropic) :
        LET es == ContinueYield(conversations[request_id].is_anthropic, w) IN
        /\ adapter' = [adapter EXCEPT !.wire = Append(@, w)]
        /\ yielded' = yielded \o es
        /\ out' = IF es = <<>> THEN out ELSE Forward(out, es[1])
    /\ UNCHANGED <<after_malformed, main_request, call, handlers, env, conversations, pc, line, request_id, tool_call,
                   nevents, nlines, calls, before, resumed>>

NextResume ==
    \/ ResumeOpen
    \/ ResumeNotFound
    \/ ResumeDelivery
    \/ ResumeDone
    \/ ResumeCleanup
    \/ ResumeFail

SpecResume == InitResume /\ [][NextResume]_vars

(***************************************************************************)
(* The keys of the store: complete requests of one provider with and       *)
(* without a request_id, and lines of an unknown type between them.        *)
(***************************************************************************)
KeyRequests ==
    { Request("complete", k, "ctx", Absent, BodyConfig("anthropic", "m", "sk-body"),
              Absent, Absent) : k \in {Absent, "r1"} }

\* a complete request is stored under its request_id or its address
KeyStart ==
    /\ CanRead
    /\ \E request \in KeyRequests : CompleteStartOn(request)

NextKeys ==
    \/ KeyStart
    \/ ReadUnknownType
    \/ CompleteEvent
    \/ CompleteDone
    \/ CompleteFail

SpecKeys == Init /\ [][NextKeys]_vars

(***************************************************************************)
(* Vocabulary of the properties.                                           *)
(***************************************************************************)
\* the type of the request on `line`, Absent when the line holds none
LineType ==
    IF line.text = "json" /\ "type" \in DOMAIN line.value
    THEN line.value.type
    ELSE Absent

\* main() is back at `for line in sys.stdin`: `line` was handled to the end
Handled == pc = "read" /\ line # NoLine

HandledComplete == Handled /\ LineType = "complete"
HandledToolResponse == Handled /\ LineType = "tool_response"

\* the provider stream of `line` ran to its end: the adapter yielded done
StreamCompleted == yielded # <<>> /\ yielded[Len(yielded)] = DoneEvent

\* `line` is a tool_response whose request_id was a key of the store
NamedStored ==
    /\ LineType = "tool_response"
    /\ line.value.request_id \in DOMAIN before

\* ... and whose tool_call_id is the id of one of its pending tool calls
NamedPending ==
    /\ NamedStored
    /\ \E i \in 1..Len(before[line.value.request_id].tool_calls) :
          before[line.value.request_id].tool_calls[i].id = line.value.tool_call_id

\* `line` is a tool_response whose request_id was missing, empty or not a
\* key of the store
NamedUnknown ==
    /\ LineType = "tool_response"
    /\ \/ line.value.request_id \in {Absent, ""}
       \/ line.value.request_id \notin DOMAIN before

InvalidIdError == ErrorEvent("Invalid or expired request_id")

(***************************************************************************)
(* C1. After a tool_response that names a stored conversation and one of   *)
(* its pending tool calls has been handled to the end, the conversation is *)
(* absent from the store, whether the continued stream ended in Done or    *)
(* in Error.                                                               *)
(***************************************************************************)
C1_MatchedResumeRemovesConversation ==
    (Handled /\ NamedPending) => line.value.request_id \notin DOMAIN conversations

(***************************************************************************)
(* C2. The store holds an entry for a request_id only if the initial       *)
(* stream of that request has emitted at least one ToolCall; a complete    *)
(* request whose stream emits only Completion/Thinking events and then     *)
(* Done leaves the store as it was.                                        *)
(***************************************************************************)
C2_EntryOnlyAfterToolCall ==
    /\ \A k \in DOMAIN conversations : conversations[k].tool_calls # <<>>
    /\ (/\ HandledComplete
        /\ StreamCompleted
        /\ \A i \in 1..Len(out) : out[i].type # "tool_call")
       => conversations = before

(***************************************************************************)
(* C3. A tool_response whose request_id is missing, empty or not a key of  *)
(* the store yields exactly one event, Error "Invalid or expired           *)
(* request_id", calls no provider and leaves every entry of the store      *)
(* unchanged.                                                              *)
(***************************************************************************)
C3_UnknownRequestIdRejected ==
    NamedUnknown
    => /\ pc = "read"
       /\ out = << InvalidIdError >>
       /\ calls = 0
       /\ conversations = before

\* an unknown request_id was rejected while the store held a conversation
C3_Witness ==
    /\ Handled
    /\ NamedUnknown
    /\ before # EmptyStore
    /\ out = << InvalidIdError >>

(***************************************************************************)
(* C4. For every input line that is not valid JSON the transport loop      *)
(* writes exactly one Error event whose message is "Invalid JSON: "        *)
(* followed by the decoder's detail, calls neither the router nor a        *)
(* provider, leaves the store unchanged and is back at reading the next    *)
(* line; and a valid line that follows is processed exactly as if the      *)
(* malformed line had not been there: reading it after the malformed line  *)
(* leads to the states reading it directly leads to, and to no others,     *)
(* with one more line counted.                                             *)
(***************************************************************************)
\* main() takes the line l, which json.loads accepts: the steps of Next
\* that read l, each handler taken on the value l decodes to
ReadsLine(l) ==
    /\ line' = l
    /\ CanRead
    /\ \/ l = Encode(NotAnObject) /\ ReadNotAnObject
       \/ l # Encode(NotAnObject) /\ ReadUnknownTypeOn(l.value)
       \/ /\ LineOf(l).type = "complete"
          /\ \/ CompleteConfigErrorOn(l.value)
             \/ CompleteUnknownProviderOn(l.value)
             \/ CompleteMissingContextOn(l.value)
             \/ CompleteStartOn(l.value)
       \/ /\ LineOf(l).type = "tool_response"
          /\ \/ ToolResponseInvalidIdOn(l.value)
             \/ ToolResponseNotFoundOn(l.value)
             \/ ToolResponseStartOn(l.value)

\* the state of the program apart from the count of the lines read and the
\* history of the line before
Handling ==
    [env |-> env, conversations |-> conversations, pc |-> pc, line |-> line,
     request_id |-> request_id, tool_call |-> tool_call, nevents |-> nevents,
     out |-> out, yielded |-> yielded, calls |-> calls, before |-> before,
     resumed |-> resumed, adapter |-> adapter, call |-> call, handlers |-> handlers,
     main_request |-> main_request]

\* the handler of the line takes the address of its request as its key
PicksKey(l) == LineOf(l).type = "complete" /\ LineOf(l).request_id = Absent

\* main() takes the valid line l, whose handler works under the key r when
\* it is one that takes an address
ReadsAs(l, r) == ReadsLine(l) /\ (PicksKey(l) => request_id' = r)

\* the keys a handler can be left with
HandlerKeyChoices(l) ==
    IF PicksKey(l) THEN RequestIds \cup GeneratedIds \cup {Absent} ELSE {Absent}

\* this step takes a malformed line, and a line can follow
TakesMalformed ==
    pc = "read" /\ nlines' = nlines + 1 /\ line' \in MalformedLines /\ nlines' < MaxLines

\* this step takes a valid line
TakesValid ==
    pc = "read" /\ nlines' = nlines + 1 /\ line'.text = "json"

C4_MalformedLineOneError ==
    [][ \* the malformed line itself
        /\ (line' \in MalformedLines)
           => /\ pc' = "read"
              /\ out' = << ErrorEvent("Invalid JSON: " \o line'.detail) >>
              /\ yielded' = <<>>
              /\ calls' = 0
              /\ conversations' = before'
              /\ conversations' = conversations
        \* whatever reading a valid line directly leads to, reading it after
        \* any malformed line leads to as well
        /\ (TakesValid /\ nlines + 2 <= MaxLines)
           => \A l \in MalformedLines : \A after \in {Handling'} :
                 ENABLED (line' = l /\ ReadMalformed
                          /\ (ENABLED (ReadsAs(after.line, after.request_id)
                                       /\ Handling' = after))')
        \* and to nothing else: a valid line can be taken after the malformed
        \* line, with an address as its key, only when it can be taken so
        \* without it,
        /\ TakesMalformed
           => \A l \in ValidLines : \A r \in HandlerKeyChoices(l) :
                 (ENABLED ReadsAs(l, r))' => ENABLED ReadsAs(l, r)
        \* and taken so after a malformed line it leads to one state only
        /\ (TakesValid /\ after_malformed')
           => \A after \in {Handling'} :
                 ~ENABLED (ReadsAs(after.line, after.request_id) /\ Handling' # after)
      ]_vars

\* after a complete request without request_id had taken g1 as its key and
\* a malformed line had followed, a second complete request without
\* request_id was handled to its Done under the key g2
C4_Witness ==
    /\ Handled
    /\ after_malformed
    /\ nlines = 3
    /\ LineType = "complete"
    /\ line.value.request_id = Absent
    /\ StreamCompleted
    /\ request_id = "g2"
    /\ "g1" \in DOMAIN conversations

(***************************************************************************)
(* C5. For a complete request whose adapter stream does not fail, the      *)
(* events the router emits are exactly the adapter's events, unmodified    *)
(* and in the adapter's order; the sequence ends with exactly one Done and *)
(* has no Done and no Error before it.                                     *)
(***************************************************************************)
C5_CompleteForwardsAdapterEvents ==
    (HandledComplete /\ StreamCompleted)
    => /\ out = yielded
       /\ out[Len(out)] = DoneEvent
       /\ \A i \in 1..(Len(out) - 1) : out[i].type \notin {"done", "error"}

\* a stream of a thinking event, a tool call and Done was forwarded
C5_Witness ==
    /\ HandledComplete
    /\ StreamCompleted
    /\ Len(out) = 3
    /\ out[1].type = "thinking"
    /\ out[2].type = "tool_call"

(***************************************************************************)
(* C6. If the handling of a request fails at any point, the events already *)
(* emitted for it are followed by exactly one Error event, the Error is    *)
(* the last event of the request, and the transport loop is back at        *)
(* reading the next line.                                                  *)
(***************************************************************************)
C6_FailureEndsInOneError ==
    /\ \A i \in 1..Len(out) :
          out[i].type = "error" => (i = Len(out) /\ pc = "read")
    /\ (Handled /\ ~StreamCompleted)
       => /\ Len(out) = Len(yielded) + 1
          /\ SubSeq(out, 1, Len(yielded)) = yielded
          /\ out[Len(out)].type = "error"

\* a provider stream failed after two events had been emitted
C6_Witness ==
    /\ Handled
    /\ ~StreamCompleted
    /\ calls = 1
    /\ Len(out) = 3
    /\ out[3].type = "error"

(***************************************************************************)
(* C7. Resume is single-shot: once the resume stream of a conversation has *)
(* terminated, with Done or with Error, every later tool_response with the *)
(* same request_id yields the Error "Invalid or expired request_id" and    *)
(* calls no provider, unless a complete request stored the conversation    *)
(* again in between.                                                       *)
(***************************************************************************)
C7_ResumeSingleShot ==
    [][ (/\ pc = "read"
         /\ nlines' = nlines + 1
         /\ line'.text = "json"
         /\ "type" \in DOMAIN line'.value
         /\ line'.value.type = "tool_response"
         /\ line'.value.request_id \in resumed)
        => (out' = << InvalidIdError >> /\ calls' = 0) ]_vars

(***************************************************************************)
(* C8. A tool_response that names a stored conversation but none of its    *)
(* pending tool calls yields exactly one Error event, calls no provider,   *)
(* and the conversation is removed from the store afterwards.              *)
(***************************************************************************)
C8_UnmatchedToolCallCleansUp ==
    (/\ Handled
     /\ NamedStored
     /\ ~NamedPending
     /\ before[line.value.request_id].tool_calls # <<>>)
    => /\ Len(out) = 1
       /\ out[1].type = "error"
       /\ calls = 0
       /\ line.value.request_id \notin DOMAIN conversations

(***************************************************************************)
(* C9. When the event sequence of a complete request ends in Error, no     *)
(* entry for its request_id remains in the store.                          *)
(***************************************************************************)
\* the key of the complete request on `line`: the local request_id once the
\* handler has computed it, else the request's own request_id
CompleteKey == IF calls = 1 THEN request_id ELSE line.value.request_id

C9_FailedCompleteLeavesNoEntry ==
    (/\ HandledComplete
     /\ out # <<>>
     /\ out[Len(out)].type = "error")
    => CompleteKey \notin DOMAIN conversations

(***************************************************************************)
(* C10. API-key resolution prefers the provider's environment variable:    *)
(* whenever ANTHROPIC_API_KEY (resp. OPENAI_API_KEY) is set, the key       *)
(* handed to the adapter of that provider is the environment's value, also *)
(* when the request body's config supplies a different api_key.            *)
(***************************************************************************)
\* the environment variable that holds the provider's key
KeyVariable(provider) ==
    IF provider = "anthropic" THEN "ANTHROPIC_API_KEY" ELSE "OPENAI_API_KEY"

C10_EnvironmentKeyPreferred ==
    (/\ pc = "complete"
     /\ conversations[request_id].config.provider \in {"anthropic", "openai"}
     /\ env[KeyVariable(conversations[request_id].config.provider)] # Absent)
    => conversations[request_id].client.api_key =
           env[KeyVariable(conversations[request_id].config.provider)]

(***************************************************************************)
(* Vocabulary of the configuration properties: what the precedence "body,  *)
(* then environment, then default" gives for the complete request on       *)
(* `line`.                                                                 *)
(***************************************************************************)
\* the config dict of the request's body, the empty dict without one
BodyDict == IF line.value.config = NoConfig THEN EmptyDict ELSE line.value.config

PrecedenceProvider ==
    IF BodyDict.provider # Absent THEN BodyDict.provider
    ELSE Getenv(env, "AI_REQUEST_PROVIDER", "anthropic")

PrecedenceModel ==
    IF BodyDict.model # Absent THEN BodyDict.model
    ELSE Getenv(env, "AI_REQUEST_MODEL", DefaultModel(PrecedenceProvider))

PrecedenceTimeout ==
    IF BodyDict.timeout # NoNumber THEN BodyDict.timeout
    ELSE IntOf(Getenv(env, "AI_REQUEST_TIMEOUT", "30")).value

PrecedenceMaxToolCalls ==
    IF BodyDict.max_tool_calls # NoNumber THEN BodyDict.max_tool_calls
    ELSE IntOf(Getenv(env, "AI_REQUEST_MAX_TOOL_CALLS", "3")).value

\* a non-empty API key is available from the body or from the environment
KeyAvailable ==
    \/ Truthy(BodyDict.api_key)
    \/ /\ PrecedenceProvider \in {"anthropic", "openai"}
       /\ Truthy(env[KeyVariable(PrecedenceProvider)])
    \/ /\ PrecedenceProvider = "local"
       /\ Truthy(env["AI_REQUEST_LOCAL_API_KEY"])

\* the request on `line` ended in one Error before any adapter was created
OneErrorNoAdapter ==
    /\ pc = "read"
    /\ Len(out) = 1
    /\ out[1].type = "error"
    /\ calls = 0
    /\ conversations = before

(***************************************************************************)
(* C11. A complete request whose provider is anthropic or openai and for   *)
(* which no non-empty API key is available from the body or from the       *)
(* environment yields exactly one Error event and no adapter is created    *)
(* or invoked; with provider local and no key anywhere, resolution         *)
(* succeeds with the key "none".                                           *)
(***************************************************************************)
C11_MissingKeyIsAnError ==
    (LineType = "complete" /\ ~KeyAvailable)
    => /\ PrecedenceProvider \in {"anthropic", "openai"} => OneErrorNoAdapter
       /\ PrecedenceProvider = "local"
          => /\ pc = "complete"
             /\ conversations[request_id].client.api_key = "none"

(***************************************************************************)
(* C12. A complete request whose provider value, from the body's config or *)
(* from AI_REQUEST_PROVIDER, is none of anthropic, openai, local yields    *)
(* exactly one Error event whose message reports an "Unknown provider"; no *)
(* adapter is created or invoked and no conversation is stored.            *)
(***************************************************************************)
C12_UnknownProviderReported ==
    (LineType = "complete" /\ PrecedenceProvider \notin valid_providers)
    => /\ OneErrorNoAdapter
       /\ out[1].message = "Unknown provider: " \o PrecedenceProvider
       /\ conversations = EmptyStore

(***************************************************************************)
(* C13. Provider, model, timeout and max_tool_calls of a complete request  *)
(* are each resolved by the precedence body config, then environment       *)
(* variable, then built-in default; a body config that omits a field still *)
(* resolves that field from the environment or the default rather than     *)
(* failing.                                                                *)
(***************************************************************************)
C13_PerFieldPrecedence ==
    (/\ LineType = "complete"
     /\ PrecedenceProvider \in valid_providers
     /\ KeyAvailable)
    => /\ pc = "complete"
       /\ conversations[request_id].config.provider = PrecedenceProvider
       /\ conversations[request_id].config.model = PrecedenceModel
       /\ conversations[request_id].config.timeout = PrecedenceTimeout
       /\ conversations[request_id].config.max_tool_calls = PrecedenceMaxToolCalls

(***************************************************************************)
(* Vocabulary of the adapter properties, read off the provider events      *)
(* received so far (adapter.wire).                                         *)
(***************************************************************************)
IsToolUseStart(w) == w.type = "content_block_start" /\ w.content_block.type = "tool_use"
IsInputJsonDelta(w) == w.type = "content_block_delta" /\ w.delta.type = "input_json_delta"

\* the Anthropic stream has just closed a tool_use block: its last event is
\* a content_block_stop and the block opened at `start` is still open
ClosesToolUse(wire, start) ==
    /\ wire # <<>>
    /\ wire[Len(wire)] = BlockStop
    /\ start \in 1..(Len(wire) - 1)
    /\ IsToolUseStart(wire[start])
    /\ \A j \in (start + 1)..(Len(wire) - 1) :
          wire[j] # BlockStop /\ ~IsToolUseStart(wire[j])

\* the argument fragments of wire[from..to], concatenated in arrival order
RECURSIVE AnthropicArgumentText(_, _, _)
AnthropicArgumentText(wire, from, to) ==
    IF from > to THEN ""
    ELSE (IF IsInputJsonDelta(wire[from]) THEN wire[from].delta.partial_json ELSE "")
         \o AnthropicArgumentText(wire, from + 1, to)

\* the tool-call entries the chunks of an OpenAI stream carry, in order
RECURSIVE ToolCallEntries(_)
ToolCallEntries(wire) ==
    IF wire = <<>> THEN <<>>
    ELSE (IF Head(wire).choices = <<>> THEN <<>>
          ELSE Head(wire).choices[1].delta.tool_calls)
         \o ToolCallEntries(Tail(wire))

\* the call indexes among the entries, in the order of first appearance
RECURSIVE IndexesInOrder(_)
IndexesInOrder(entries) ==
    IF entries = <<>> THEN <<>>
    ELSE LET init == IndexesInOrder(SubSeq(entries, 1, Len(entries) - 1))
             last == entries[Len(entries)].index
         IN  IF \E i \in 1..Len(init) : init[i] = last THEN init ELSE Append(init, last)

\* the argument fragments of one call index, concatenated in arrival order
RECURSIVE OpenAIArgumentText(_, _)
OpenAIArgumentText(entries, index) ==
    IF entries = <<>> THEN ""
    ELSE (IF Head(entries).index = index /\ Head(entries).function.arguments # Absent
          THEN Head(entries).function.arguments ELSE "")
         \o OpenAIArgumentText(Tail(entries), index)

\* the OpenAI stream has just signalled the completion of its tool calls
SignalsToolCalls(wire) ==
    /\ wire # <<>>
    /\ wire[Len(wire)].choices # <<>>
    /\ wire[Len(wire)].choices[1].finish_reason = "tool_calls"

\* the object a text encodes, {} when it encodes none
DecodedOrEmpty(text) ==
    IF JsonLoadsArgs(text).ok THEN JsonLoadsArgs(text).value ELSE EmptyArgs

(***************************************************************************)
(* C14. For both adapters and any split of a tool call's argument text     *)
(* into fragments: when the call's completion is signalled the adapter     *)
(* emits a ToolCall whose args is the object the fragments, concatenated   *)
(* in arrival order, encode, and {} when they encode none or there are no  *)
(* fragments; no Error is emitted and the stream goes on to its Done.      *)
(***************************************************************************)
C14_ArgumentFragmentsRoundTrip ==
    /\ \A i \in 1..Len(yielded) : yielded[i].type # "error"
    /\ (adapter.kind # "none" /\ adapter.status = "done")
       => yielded[Len(yielded)] = DoneEvent
    /\ (adapter.kind = "anthropic" /\ adapter.status \in {"running", "tool_call"})
       => \A start \in 1..Len(adapter.wire) :
            ClosesToolUse(adapter.wire, start)
            => /\ yielded # <<>>
               /\ yielded[Len(yielded)] =
                    ToolCallEvent(adapter.wire[start].content_block.id,
                                  adapter.wire[start].content_block.name,
                                  DecodedOrEmpty(AnthropicArgumentText(
                                      adapter.wire, start + 1, Len(adapter.wire) - 1)))
    /\ (adapter.kind = "openai" /\ adapter.status \in {"running", "tool_call"}
        /\ SignalsToolCalls(adapter.wire))
       => LET entries == ToolCallEntries(adapter.wire)
              indexes == IndexesInOrder(entries)
              \* the calls emitted so far for the signal: all of them once
              \* the generator has left the loop over its calls
              k == IF adapter.status = "tool_call" THEN adapter.position
                   ELSE Len(indexes)
          IN  /\ Len(yielded) >= k
              /\ adapter.status = "tool_call" => k \in 1..(Len(indexes) - 1)
              /\ \A j \in 1..k :
                    /\ yielded[Len(yielded) - k + j].type = "tool_call"
                    /\ yielded[Len(yielded) - k + j].args =
                         DecodedOrEmpty(OpenAIArgumentText(entries, indexes[j]))

\* the Anthropic adapter emitted a call whose arguments arrived in two
\* fragments, and then yielded done
C14_Witness ==
    /\ adapter.kind = "anthropic"
    /\ adapter.status = "done"
    /\ Len(adapter.wire) = 4
    /\ IsInputJsonDelta(adapter.wire[2])
    /\ IsInputJsonDelta(adapter.wire[3])
    /\ yielded = << ToolCallEvent("t1", "get_implementation", [function_name |-> "foo"]),
                    DoneEvent >>

(***************************************************************************)
(* C15. Within one streamed turn, for every provider event sequence, each  *)
(* adapter emits a ToolCall for a given call (call index for the OpenAI    *)
(* adapter, tool_use block for the Anthropic adapter) at most once and     *)
(* only after the provider has signalled that call's completion            *)
(* (finish_reason tool_calls, resp. content_block_stop); no ToolCall is    *)
(* emitted for a call whose completion was never signalled.                *)
(***************************************************************************)
\* the ToolCall events the adapter has yielded
ToolCallsYielded == SelectSeq(yielded, LAMBDA e : e.type = "tool_call")

\* the tool_use blocks of an Anthropic stream that a content_block_stop
\* has closed, as the positions of their content_block_start
ClosedToolUses(wire) ==
    { start \in 1..Len(wire) :
        \E n \in 1..Len(wire) : ClosesToolUse(SubSeq(wire, 1, n), start) }

\* the call indexes of an OpenAI stream whose completion has been signalled
SignalledIndexes(wire) ==
    { index \in {0, 1} :
        \E n \in 1..Len(wire) :
            /\ SignalsToolCalls(SubSeq(wire, 1, n))
            /\ \E i \in 1..Len(ToolCallEntries(SubSeq(wire, 1, n))) :
                  ToolCallEntries(SubSeq(wire, 1, n))[i].index = index }

C15_ToolCallOncePerCall ==
    /\ adapter.kind = "anthropic"
       => Len(ToolCallsYielded) <= Cardinality(ClosedToolUses(adapter.wire))
    /\ adapter.kind = "openai"
       => Len(ToolCallsYielded) <= Cardinality(SignalledIndexes(adapter.wire))

(***************************************************************************)
(* C16. For both adapters, a provider stream that does not fail yields one *)
(* Completion event per text delta, carrying that delta's text and in      *)
(* arrival order, yields no event for provider events that carry no text,  *)
(* reasoning or tool-call data, and ends with exactly one Done, emitted    *)
(* last.                                                                   *)
(***************************************************************************)
\* the text a provider event carries, Absent when it carries none
TextOf(w) ==
    IF adapter.kind = "anthropic"
    THEN IF w.type = "content_block_delta" /\ w.delta.type = "text_delta"
         THEN w.delta.text ELSE Absent
    ELSE IF w.choices # <<>> /\ Truthy(w.choices[1].delta.content)
         THEN w.choices[1].delta.content ELSE Absent

\* the reasoning text a provider event carries, Absent when it carries none
ReasoningOf(w) ==
    IF adapter.kind = "anthropic" /\ w.type = "content_block_delta"
       /\ w.delta.type = "thinking_delta"
    THEN w.delta.thinking ELSE Absent

\* the contents of the yielded events of one type, in order
ContentsYielded(type) ==
    LET es == SelectSeq(yielded, LAMBDA e : e.type = type)
    IN  [i \in 1..Len(es) |-> es[i].content]

\* what the provider events received so far carry, in order
Carried(Of(_)) ==
    LET ws == SelectSeq(adapter.wire, LAMBDA w : Of(w) # Absent)
    IN  [i \in 1..Len(ws) |-> Of(ws[i])]

DonesYielded == SelectSeq(yielded, LAMBDA e : e = DoneEvent)

C16_CompletionPerTextDelta ==
    (adapter.kind # "none" /\ adapter.status # "raised")
    => /\ ContentsYielded("completion") = Carried(TextOf)
       /\ ContentsYielded("thinking") = Carried(ReasoningOf)
       /\ Len(yielded) = Len(Carried(TextOf)) + Len(Carried(ReasoningOf))
                         + Len(ToolCallsYielded) + Len(DonesYielded)
       /\ adapter.status # "done" => DonesYielded = <<>>
       /\ adapter.status = "done"
          => /\ DonesYielded = << DoneEvent >>
             /\ yielded[Len(yielded)] = DoneEvent

\* an OpenAI stream of a chunk without choices, the text deltas "b" and "a"
\* in this order, and the final chunk has ended
C16_Witness ==
    /\ adapter.kind = "openai"
    /\ adapter.status = "done"
    /\ adapter.wire = << NoChoices, Chunk("b", <<>>, Absent), Chunk("a", <<>>, Absent),
                         Chunk(Absent, <<>>, "stop") >>
    /\ yielded = << CompletionEvent("b"), CompletionEvent("a"), DoneEvent >>

(***************************************************************************)
(* C17. On a resume, for both providers, the message history sent to the   *)
(* provider consists of the original user message, then an assistant turn  *)
(* that contains the conversation's accumulated completion text (when      *)
(* there is any) together with the matched tool-use block, then a          *)
(* tool-result turn carrying the caller-supplied content tied to the same  *)
(* tool_call_id; the tool schema of the initial call is passed.            *)
(***************************************************************************)
\* the turns of the history: its messages without the system prompt
Turns(messages) == SelectSeq(messages, LAMBDA m : m.role # "system")

\* the text an assistant turn contains, Absent when it contains none
AssistantText(kind, turn) ==
    IF kind = "anthropic"
    THEN LET texts == SelectSeq(turn.content, LAMBDA b : b.type = "text")
         IN  IF texts = <<>> THEN Absent ELSE texts[1].text
    ELSE turn.content

\* the ids of the tool-use blocks an assistant turn contains
AssistantToolUses(kind, turn) ==
    IF kind = "anthropic"
    THEN LET uses == SelectSeq(turn.content, LAMBDA b : b.type = "tool_use")
         IN  [i \in 1..Len(uses) |-> uses[i].id]
    ELSE [i \in 1..Len(turn.tool_calls) |-> turn.tool_calls[i].id]

\* the tool call a tool-result turn answers, and the content it carries
ToolResult(kind, turn) ==
    IF kind = "anthropic"
    THEN [role |-> turn.role, id |-> turn.content[1].tool_use_id,
          content |-> turn.content[1].content]
    ELSE [role |-> turn.role, id |-> turn.tool_call_id, content |-> turn.content]

C17_ResumeHistory ==
    /\ pc = "complete" => call.tools = conversations[request_id].tools
    /\ pc = "resume"
       => LET conv == conversations[request_id]
              turns == Turns(call.messages)
          IN  /\ Len(turns) = 3
              /\ turns[1] = [role |-> "user", content |-> conv.user_message]
              /\ turns[2].role = "assistant"
              /\ AssistantText(call.kind, turns[2]) =
                    (IF conv.completion_parts = <<>> THEN Absent
                     ELSE Join(conv.completion_parts))
              /\ AssistantToolUses(call.kind, turns[2]) = << line.value.tool_call_id >>
              /\ ToolResult(call.kind, turns[3]) =
                    [role |-> IF call.kind = "anthropic" THEN "user" ELSE "tool",
                     id |-> line.value.tool_call_id,
                     content |-> line.value.content]
              /\ call.tools = conv.tools

(***************************************************************************)
(* C18. The transport loop handles input lines strictly one after another: *)
(* every event the router yields for line n is written as its own output   *)
(* line, in the order yielded and before the next event is pulled from the *)
(* provider stream, and all output of line n precedes any output of line   *)
(* n+1.                                                                    *)
(***************************************************************************)
\* the events a step adds to a sequence that it extends
Added(old, new) == SubSeq(new, Len(old) + 1, Len(new))

C18_LinesHandledInSequence ==
    [][ /\ (line' # line \/ nlines' # nlines)
           => /\ pc = "read"
              /\ nlines' = nlines + 1
              /\ yielded' = <<>>
        /\ nlines' = nlines
           => /\ line' = line
              /\ Len(out') >= Len(out)
              /\ SubSeq(out', 1, Len(out)) = out
              /\ Len(Added(out, out')) <= 1
              /\ Len(yielded') >= Len(yielded)
              /\ SubSeq(yielded', 1, Len(yielded)) = yielded
              /\ yielded' # yielded => Added(out, out') = Added(yielded, yielded')
      ]_vars

\* the second line's stream is running and its first event is written
C18_Witness ==
    /\ nlines = 2
    /\ pc = "complete"
    /\ Len(yielded) = 1
    /\ out = yielded
    /\ before # EmptyStore

(***************************************************************************)
(* Vocabulary of the interleaving properties.                              *)
(***************************************************************************)
\* the request_id handler h's request carries
KeyOf(h) == handlers[h].actual.request.request_id

\* the entry of a key, NoEntry without one
NoEntry == [absent |-> TRUE]
EntryOf(store, k) == IF k \in DOMAIN store THEN store[k] ELSE NoEntry

\* handler h has called the provider to resume a conversation
Resumes(h) == handlers[h].actual.found # NoToolCall

(***************************************************************************)
(* C19. Conversations are independent per key: under any interleaving, at  *)
(* event granularity, of the handling of two requests that carry different *)
(* request_ids, each request emits the same events and leaves its own      *)
(* store entry in the same state as when it is handled alone, and neither  *)
(* creates, modifies or removes the other's entry.                         *)
(***************************************************************************)
C19_DifferentKeysIndependent ==
    (handlers # NoHandlers /\ KeyOf(1) # KeyOf(2))
    => \A h \in DOMAIN handlers :
          /\ handlers[h].actual = handlers[h].solo
          /\ EntryOf(conversations, KeyOf(h)) = EntryOf(handlers[h].alone, KeyOf(h))

\* a complete request for r1 and a resume of r2 are both in mid-stream, and
\* each has yielded an event
C19_Witness ==
    /\ handlers # NoHandlers
    /\ KeyOf(1) = "r1"
    /\ KeyOf(2) = "r2"
    /\ handlers[1].actual.pc = "complete"
    /\ handlers[2].actual.pc = "resume"
    /\ handlers[1].actual.out # <<>>
    /\ handlers[2].actual.out # <<>>
    /\ "r2" \in DOMAIN conversations

(***************************************************************************)
(* C20. Store access is mutually exclusive per key: when the handling of a *)
(* complete request and of a tool_response, or of two tool_responses, with *)
(* the same request_id are interleaved at event granularity, no request    *)
(* fails or loses data because the other removed or replaced the entry     *)
(* between two of its own store accesses, and the conversation is resumed  *)
(* by at most one of them.                                                 *)
(***************************************************************************)
C20_SameKeyMutuallyExclusive ==
    (/\ handlers # NoHandlers
     /\ KeyOf(1) = KeyOf(2)
     /\ \E h \in DOMAIN handlers : handlers[h].actual.request.type = "tool_response")
    => /\ \A h \in DOMAIN handlers :
             handlers[h].actual.request.type = "complete"
             => /\ \A i \in 1..Len(handlers[h].actual.out) :
                      handlers[h].actual.out[i] # ErrorEvent("'" \o KeyOf(h) \o "'")
                /\ handlers[h].actual.pc = "complete"
                   => EntryOf(conversations, KeyOf(h)) = EntryOf(handlers[h].alone, KeyOf(h))
       /\ ~(Resumes(1) /\ Resumes(2))

(***************************************************************************)
(* Vocabulary of the streaming properties.                                 *)
(***************************************************************************)
\* the events of one type among es, in their order
OfType(es, type) == SelectSeq(es, LAMBDA e : e.type = type)

\* the contents of the events of one type among es, in their order
ContentsOf(es, type) ==
    [i \in 1..Len(OfType(es, type)) |-> OfType(es, type)[i].content]

\* the handler of the complete request on `line` has called the provider
Streaming == LineType = "complete" /\ calls = 1

\* the entry the handler of `line` stored before it called the provider
StoredAtStart ==
    NewConversation(ResolveConfig(line.value, env).value,
                    UserMessage(line.value.context, line.value.prompt))

(***************************************************************************)
(* C21. While a complete request streams, the conversation's pending       *)
(* tool-call list is at every step exactly the ordered sequence of the     *)
(* ToolCall events forwarded so far, and its accumulated text exactly the  *)
(* ordered sequence of the contents of the Completion events forwarded so  *)
(* far; nothing else of the conversation changes, so Thinking and Done     *)
(* events are forwarded without changing it, and no event is forwarded     *)
(* that is not recorded.                                                   *)
(***************************************************************************)
C21_ConversationMirrorsForwarded ==
    Streaming
    => /\ request_id \in DOMAIN conversations
       /\ conversations[request_id] =
              [StoredAtStart EXCEPT !.tool_calls = OfType(out, "tool_call"),
                                    !.completion_parts = ContentsOf(out, "completion")]

\* two tool calls were forwarded, t2 before t1, and the stream goes on
C21_Witness ==
    /\ Streaming
    /\ pc = "complete"
    /\ Len(out) = 2
    /\ out[1].type = "tool_call" /\ out[1].id = "t2"
    /\ out[2].type = "tool_call" /\ out[2].id = "t1"
    /\ Len(conversations[request_id].tool_calls) = 2

\* a completion, a thinking event and Done were forwarded
C21_WitnessThinking ==
    /\ Streaming
    /\ pc = "read"
    /\ Len(out) = 3
    /\ out[1].type = "completion"
    /\ out[2].type = "thinking"
    /\ out[3] = DoneEvent
    /\ conversations[request_id].completion_parts = << out[1].content >>

(***************************************************************************)
(* Vocabulary of the resume properties.                                    *)
(***************************************************************************)
\* the text a delivery of the continued stream carries, Absent without one
\* (an empty string is no text)
DeliveredText(w) ==
    IF "type" \in DOMAIN w
    THEN IF w.type = "content_block_delta" /\ w.delta.type = "text_delta"
         THEN w.delta.text ELSE Absent
    ELSE IF w.choices # <<>> /\ w.choices[1].delta.content \notin {Absent, ""}
         THEN w.choices[1].delta.content ELSE Absent

\* the Completion events for the texts the wire carries, in arrival order
RECURSIVE CompletionsOf(_)
CompletionsOf(wire) ==
    IF wire = <<>> THEN <<>>
    ELSE (IF DeliveredText(Head(wire)) = Absent THEN <<>>
          ELSE << CompletionEvent(DeliveredText(Head(wire))) >>)
         \o CompletionsOf(Tail(wire))

\* the handler of the tool_response on `line` has called the provider
Resuming == LineType = "tool_response" /\ calls = 1

(***************************************************************************)
(* C22. The event sequence of a successful resume consists of zero or more *)
(* Completion events, in the provider's arrival order, followed by exactly *)
(* one Done; no ToolCall or Thinking event is emitted during a resume,     *)
(* whatever the continued provider stream contains, and no pending tool    *)
(* call is added to the conversation.                                      *)
(***************************************************************************)
C22_ResumeForwardsTextOnly ==
    Resuming
    => /\ \A i \in 1..Len(out) : out[i].type \notin {"tool_call", "thinking"}
       /\ pc = "resume"
          => /\ out = CompletionsOf(adapter.wire)
             /\ conversations = before
       /\ pc = "cleanup"
          => /\ out = CompletionsOf(adapter.wire) \o << DoneEvent >>
             /\ conversations = before
       /\ (Handled /\ StreamCompleted)
          => /\ out = CompletionsOf(adapter.wire) \o << DoneEvent >>
             /\ \A k \in DOMAIN conversations : conversations[k] = before[k]
       /\ (Handled /\ ~StreamCompleted)
          => conversations = before

\* a resume ended in Done after its stream had delivered reasoning, the
\* start of a tool call and two texts
C22_Witness ==
    /\ Resuming
    /\ Handled
    /\ StreamCompleted
    /\ Len(out) = 3
    /\ out[1] # out[2]
    /\ before[request_id].is_anthropic
    /\ \E i, j \in 1..Len(adapter.wire) :
          /\ adapter.wire[i].type = "content_block_start"
          /\ adapter.wire[j].type = "content_block_delta"
          /\ adapter.wire[j].delta.type = "thinking_delta"

(***************************************************************************)
(* C23. When a complete request omits request_id, the key generated for    *)
(* its conversation is fresh: it differs from every key present in the     *)
(* store at that moment, so handling the request never replaces or alters  *)
(* the stored conversation of an earlier request.                          *)
(***************************************************************************)
C23_GeneratedKeyFresh ==
    (Streaming /\ line.value.request_id = Absent)
    => /\ request_id \notin DOMAIN before
       /\ \A k \in DOMAIN before :
             k \in DOMAIN conversations /\ conversations[k] = before[k]

(***************************************************************************)
(* C24. A complete request with request_id R that reaches the provider     *)
(* replaces whatever entry the store holds for R by a fresh one (empty     *)
(* pending tool-call list, empty accumulated text) before the first event  *)
(* is streamed, so the pending tool calls of an earlier request with the   *)
(* same R can no longer be answered: the only tool calls pending under R   *)
(* are those this request's stream has emitted.  Every entry stored under  *)
(* a different key is left unchanged.                                      *)
(***************************************************************************)
C24_SameKeyReplaced ==
    (Streaming /\ line.value.request_id # Absent)
    => /\ request_id = line.value.request_id
       /\ DOMAIN conversations = DOMAIN before \cup {request_id}
       /\ \A k \in DOMAIN before \ {request_id} : conversations[k] = before[k]
       /\ out = <<>>
          => /\ conversations[request_id] = StoredAtStart
             /\ conversations[request_id].tool_calls = <<>>
             /\ conversations[request_id].completion_parts = <<>>
       /\ \A t \in ToolIds :
             FindToolCall(conversations[request_id].tool_calls, t) # NoToolCall
             => \E i \in 1..Len(out) : out[i].type = "tool_call" /\ out[i].id = t

\* the request has just replaced an entry with a pending tool call, while
\* the store holds a second conversation
C24_Witness ==
    /\ Streaming
    /\ pc = "complete"
    /\ out = <<>>
    /\ line.value.request_id = "r1"
    /\ "r1" \in DOMAIN before
    /\ before["r1"].tool_calls # <<>>
    /\ conversations["r1"].tool_calls = <<>>
    /\ \E k \in DOMAIN before : k # "r1" /\ before[k].tool_calls # <<>>

(***************************************************************************)
(* C25. When the initial stream of a request emitted two or more           *)
(* ToolCalls, a tool_response for one of them puts only that matched call  *)
(* into the resumed history and, once handled, removes the whole           *)
(* conversation, so that a tool_response for any other pending call of the *)
(* same request_id finds no conversation and at most one pending tool call *)
(* per conversation is ever answered.                                      *)
(***************************************************************************)
C25_OnePendingCallAnswered ==
    (Resuming /\ Len(before[request_id].tool_calls) >= 2)
    => /\ AssistantToolUses(call.kind, Turns(call.messages)[2])
              = << line.value.tool_call_id >>
       /\ Handled => request_id \notin DOMAIN conversations

====
